---- MODULE Spec2Model ----
(***************************************************************************)
(* wayland-info-rs: the staged discovery of the compositor's globals, the  *)
(* per-protocol collectors that fold events into AppData, and the          *)
(* renderers that print the frozen AppData.                                *)
(*                                                                         *)
(* Vec indices are zero-based as in the source; a Vec is a sequence, so    *)
(* element i of the source is element i + 1 of the sequence.               *)
(* Option<T>: None is the empty sequence, Some(v) the one-element sequence.*)
(***************************************************************************)
EXTENDS Integers, Sequences, FiniteSets, TLC

VARIABLES
    pc,        \* position of main()
    rt,        \* state of the event_queue.roundtrip() call in progress
    main,      \* local variables of main()
    app_data,  \* the AppData aggregate
    sent,      \* requests written to the connection; request k creates object k
    srv,       \* the compositor: requests handled, globals advertised, events volunteered
    events,    \* events written by the compositor and not yet dispatched (FIFO)
    hist,      \* history: orchestrator steps, events dispatched
    cli,       \* CliOptions in effect for the rendering
    out        \* what the process has printed and its exit status

vars == <<pc, rt, main, app_data, sent, srv, events, hist, cli, out>>

(***************************************************************************)
(* Bounds of the model.                                                    *)
(***************************************************************************)
\* The globals a compositor advertises in one run, late ones included.
MaxGlobals == 3

(***************************************************************************)
(* Generic helpers.                                                        *)
(***************************************************************************)
None == <<>>

Some(v) == <<v>>

IsSome(o) == Len(o) = 1

Range(s) == {s[k] : k \in 1..Len(s)}

InRange(s, i) == i >= 0 /\ i < Len(s)

RECURSIVE SeqsUpTo(_, _)
SeqsUpTo(S, n) ==
    IF n = 0 THEN {<<>>}
    ELSE LET shorter == SeqsUpTo(S, n - 1)
         IN  shorter \cup {Append(s, x) : s \in {t \in shorter : Len(t) = n - 1}, x \in S}

RECURSIVE Join(_, _)
Join(words, sep) ==
    IF Len(words) = 0 THEN ""
    ELSE IF Len(words) = 1 THEN words[1]
    ELSE words[1] \o sep \o Join(Tail(words), sep)

(***************************************************************************)
(* app.rs: AppData and UserData.                                           *)
(***************************************************************************)
AppData_new ==
    [ globals |-> <<>>, seats |-> <<>>, outputs |-> <<>>, shm_info |-> <<>>,
      drm_lease_devices |-> <<>>, presentation_info |-> <<>>,
      treeland_output_managers |-> <<>>, xdg_output_managers |-> <<>>,
      seat_objects |-> <<>>, output_objects |-> <<>>, shm_objects |-> <<>>,
      presentation_objects |-> <<>>, treeland_output_manager_objects |-> <<>>,
      xdg_output_manager_objects |-> <<>>, xdg_output_objects |-> <<>> ]

\* The record lists of AppData, without the proxies: what the renderers read.
Snapshot(ad) ==
    [ globals |-> ad.globals, seats |-> ad.seats, outputs |-> ad.outputs,
      shm_info |-> ad.shm_info, drm_lease_devices |-> ad.drm_lease_devices,
      presentation_info |-> ad.presentation_info,
      treeland_output_managers |-> ad.treeland_output_managers,
      xdg_output_managers |-> ad.xdg_output_managers ]

add_global(ad, name, interface, version) ==
    [ad EXCEPT !.globals =
        Append(@, [name |-> name, interface |-> interface, version |-> version])]

\* A faulty variant: every tag carries the index 0.
UserDataFirst(kind, i, j) == [kind |-> kind, i |-> 0, j |-> j]

\* UserData: the tag attached to a proxy when it is created.
UserData(kind, i, j) == [kind |-> kind, i |-> i, j |-> j]

\* The variants of the enum.
UserDataKinds ==
    { "Seat", "Output", "Shm", "Presentation", "TreelandOutputManager",
      "XdgOutputManager", "XdgOutput" }

UnitData == UserData("Unit", 0, 0)

SyncData == UserData("Sync", 0, 0)

(***************************************************************************)
(* protocols/wl_seat.rs                                                    *)
(***************************************************************************)
add_seat(ad, name, seat_name) ==
    [ad EXCEPT !.seats = Append(@,
        [ name |-> name, seat_name |-> seat_name, capabilities |-> <<>>,
          keyboard_repeat_rate |-> None, keyboard_repeat_delay |-> None ])]

update_seat_capabilities(ad, seat_index, capabilities) ==
    IF InRange(ad.seats, seat_index)
    THEN [ad EXCEPT !.seats[seat_index + 1].capabilities = capabilities]
    ELSE ad

\* A faulty variant: the repeat info goes to the seat recorded last.
update_seat_keyboard_repeat_last(ad, seat_index, rate, delay) ==
    IF InRange(ad.seats, seat_index)
    THEN [ad EXCEPT !.seats[Len(ad.seats)].keyboard_repeat_rate = Some(rate),
                    !.seats[Len(ad.seats)].keyboard_repeat_delay = Some(delay)]
    ELSE ad

update_seat_keyboard_repeat(ad, seat_index, rate, delay) ==
    IF InRange(ad.seats, seat_index)
    THEN [ad EXCEPT !.seats[seat_index + 1].keyboard_repeat_rate = Some(rate),
                    !.seats[seat_index + 1].keyboard_repeat_delay = Some(delay)]
    ELSE ad

update_seat_name(ad, seat_index, name) ==
    IF InRange(ad.seats, seat_index)
    THEN [ad EXCEPT !.seats[seat_index + 1].seat_name = name]
    ELSE ad

\* wl_seat::Capability is a bitfield: pointer = 1, keyboard = 2, touch = 4.
\* WEnum::Value(c) holds the decoded bitfield when every bit is a known one.
CapabilityBits == 0..7

\* The match of the capabilities handler: each arm compares the whole value
\* with one constant.
CapabilityTokens(capabilities) ==
    IF capabilities \in CapabilityBits /\ capabilities = 1 THEN <<"pointer">>
    ELSE IF capabilities \in CapabilityBits /\ capabilities = 2 THEN <<"keyboard">>
    ELSE IF capabilities \in CapabilityBits /\ capabilities = 4 THEN <<"touch">>
    ELSE <<>>

\* Dispatch<WlSeat, UserData>::event
SeatEvent(ad, data, ev, args) ==
    IF data.kind # "Seat" THEN ad
    ELSE IF ev = "capabilities"
         THEN update_seat_capabilities(ad, data.i, CapabilityTokens(args[1]))
    ELSE IF ev = "name" THEN update_seat_name(ad, data.i, args[1])
    ELSE ad

\* A faulty variant: every event of a keyboard is taken for its repeat info.
KeyboardEventAny(ad, data, ev, args) ==
    IF data.kind # "Seat" THEN ad
    ELSE update_seat_keyboard_repeat(ad, data.i, args[1], args[1])

\* Dispatch<WlKeyboard, UserData>::event
KeyboardEvent(ad, data, ev, args) ==
    IF data.kind # "Seat" THEN ad
    ELSE IF ev = "repeat_info"
         THEN update_seat_keyboard_repeat(ad, data.i, args[1], args[2])
    ELSE ad

(***************************************************************************)
(* protocols/wl_output.rs                                                  *)
(***************************************************************************)
add_output(ad, name, output_name) ==
    [ad EXCEPT !.outputs = Append(@,
        [ name |-> name, output_name |-> output_name, description |-> "",
          x |-> 0, y |-> 0, scale |-> 1, physical_width |-> 0, physical_height |-> 0,
          make |-> "", model |-> "", subpixel_orientation |-> "",
          output_transform |-> "", modes |-> <<>> ])]

\* wl_output::Subpixel, an enum: the wire values 0..5 are recognised.
SubpixelToken(subpixel) ==
    CASE subpixel = 0 -> "unknown"
      [] subpixel = 1 -> "none"
      [] subpixel = 2 -> "horizontal_rgb"
      [] subpixel = 3 -> "horizontal_bgr"
      [] subpixel = 4 -> "vertical_rgb"
      [] subpixel = 5 -> "vertical_bgr"
      [] OTHER -> "unknown"

\* A faulty variant: the fallback of the subpixel match is used here too.
TransformTokenUnknown(transform) ==
    CASE transform = 0 -> "normal"
      [] transform = 1 -> "90"
      [] transform = 2 -> "180"
      [] transform = 3 -> "270"
      [] transform = 4 -> "flipped"
      [] transform = 5 -> "flipped-90"
      [] transform = 6 -> "flipped-180"
      [] transform = 7 -> "flipped-270"
      [] OTHER -> "unknown"

\* wl_output::Transform, an enum: the wire values 0..7 are recognised.
TransformToken(transform) ==
    CASE transform = 0 -> "normal"
      [] transform = 1 -> "90"
      [] transform = 2 -> "180"
      [] transform = 3 -> "270"
      [] transform = 4 -> "flipped"
      [] transform = 5 -> "flipped-90"
      [] transform = 6 -> "flipped-180"
      [] transform = 7 -> "flipped-270"
      [] OTHER -> "normal"

\* geometry = [x, y, physical_width, physical_height, subpixel, transform, make, model]
update_output_geometry(ad, output_index, geometry) ==
    IF InRange(ad.outputs, output_index)
    THEN [ad EXCEPT !.outputs[output_index + 1] =
            [@ EXCEPT !.x = geometry.x, !.y = geometry.y,
                      !.physical_width = geometry.physical_width,
                      !.physical_height = geometry.physical_height,
                      !.make = geometry.make, !.model = geometry.model,
                      !.subpixel_orientation = SubpixelToken(geometry.subpixel),
                      !.output_transform = TransformToken(geometry.transform)]]
    ELSE ad

\* wl_output::Mode is a bitfield: current = 1, preferred = 2.
ModeBits == 0..3

\* The match of update_output_mode: each arm compares the whole value with
\* one constant.
ModeFlagTokens(flags) ==
    IF flags \in ModeBits /\ flags = 1 THEN <<"current">>
    ELSE IF flags \in ModeBits /\ flags = 2 THEN <<"preferred">>
    ELSE <<>>

\* A faulty variant: a mode equal to one of the list is not added again.
update_output_mode_distinct(ad, output_index, flags, width, height, refresh) ==
    LET mode == [ width |-> width, height |-> height, refresh |-> refresh,
                  flags |-> ModeFlagTokens(flags) ]
    IN  IF InRange(ad.outputs, output_index)
           /\ mode \notin Range(ad.outputs[output_index + 1].modes)
        THEN [ad EXCEPT !.outputs[output_index + 1].modes = Append(@, mode)]
        ELSE ad

update_output_mode(ad, output_index, flags, width, height, refresh) ==
    IF InRange(ad.outputs, output_index)
    THEN [ad EXCEPT !.outputs[output_index + 1].modes = Append(@,
            [ width |-> width, height |-> height, refresh |-> refresh,
              flags |-> ModeFlagTokens(flags) ])]
    ELSE ad

\* A faulty variant: an index past the end addresses the last output.
update_output_scale_last(ad, output_index, factor) ==
    IF ad.outputs # <<>>
    THEN [ad EXCEPT !.outputs[IF InRange(ad.outputs, output_index)
                              THEN output_index + 1 ELSE Len(ad.outputs)].scale = factor]
    ELSE ad

update_output_scale(ad, output_index, factor) ==
    IF InRange(ad.outputs, output_index)
    THEN [ad EXCEPT !.outputs[output_index + 1].scale = factor]
    ELSE ad

update_output_name(ad, output_index, name) ==
    IF InRange(ad.outputs, output_index)
    THEN [ad EXCEPT !.outputs[output_index + 1].output_name = name]
    ELSE ad

update_output_description(ad, output_index, description) ==
    IF InRange(ad.outputs, output_index)
    THEN [ad EXCEPT !.outputs[output_index + 1].description = description]
    ELSE ad

\* Dispatch<WlOutput, UserData>::event
OutputEvent(ad, data, ev, args) ==
    IF data.kind # "Output" THEN ad
    ELSE CASE ev = "geometry" ->
                update_output_geometry(ad, data.i,
                    [ x |-> args[1], y |-> args[2], physical_width |-> args[3],
                      physical_height |-> args[4], subpixel |-> args[5],
                      make |-> args[6], model |-> args[7], transform |-> args[8] ])
           [] ev = "mode" ->
                update_output_mode(ad, data.i, args[1], args[2], args[3], args[4])
           [] ev = "scale" -> update_output_scale(ad, data.i, args[1])
           [] ev = "name" -> update_output_name(ad, data.i, args[1])
           [] ev = "description" -> update_output_description(ad, data.i, args[1])
           [] OTHER -> ad

(***************************************************************************)
(* protocols/wl_shm.rs                                                     *)
(***************************************************************************)
\* A faulty variant: a second wl_shm global gets no record of its own.
add_shm_once(ad, name) ==
    IF ad.shm_info # <<>> THEN ad
    ELSE [ad EXCEPT !.shm_info = Append(@, [name |-> name, formats |-> <<>>])]

add_shm(ad, name) ==
    [ad EXCEPT !.shm_info = Append(@, [name |-> name, formats |-> <<>>])]

\* A String built from bytes is the sequence of its ASCII codes.
\* u8::is_ascii_graphic: the printable non-space ASCII codes 0x21..0x7E.
\* A faulty variant: the space passes for a graphic character.
is_ascii_printable(b) == b >= 32 /\ b <= 126

is_ascii_graphic(b) == b >= 33 /\ b <= 126

\* The ASCII code of a lowercase hexadecimal digit.
HexDigit(d) == IF d < 10 THEN 48 + d ELSE 87 + d

\* format!("{:0w$x}", n): `digits` lowercase hexadecimal digits, zero padded.
RECURSIVE Hex(_, _)
Hex(n, digits) ==
    IF digits = 0 THEN <<>> ELSE Append(Hex(n \div 16, digits - 1), HexDigit(n % 16))

format_to_fourcc(format) ==
    LET bytes == << format % 256, (format \div 256) % 256,
                    (format \div 65536) % 256, (format \div 16777216) % 256 >>
    IN  IF \A k \in 1..4 : is_ascii_graphic(bytes[k])
        THEN bytes
        ELSE Hex(format, 8)

\* A faulty variant: a format takes the place of the formats before it.
add_shm_format_latest(ad, shm_index, format) ==
    IF InRange(ad.shm_info, shm_index)
    THEN [ad EXCEPT !.shm_info[shm_index + 1].formats =
            <<[format |-> format, fourcc |-> format_to_fourcc(format)]>>]
    ELSE ad

add_shm_format(ad, shm_index, format) ==
    IF InRange(ad.shm_info, shm_index)
    THEN [ad EXCEPT !.shm_info[shm_index + 1].formats = Append(@,
            [format |-> format, fourcc |-> format_to_fourcc(format)])]
    ELSE ad

\* Dispatch<WlShm, UserData>::event
ShmEvent(ad, data, ev, args) ==
    IF data.kind # "Shm" THEN ad
    ELSE IF ev = "format" THEN add_shm_format(ad, data.i, args[1])
    ELSE ad

(***************************************************************************)
(* protocols/wp_drm_lease_device.rs, wp_presentation.rs,                   *)
(* treeland_output_manager.rs                                              *)
(***************************************************************************)
\* A faulty variant: the record is created with the path the renderer falls
\* back to.
add_drm_lease_device_with_path(ad, name) ==
    [ad EXCEPT !.drm_lease_devices = Append(@,
        [name |-> name, device_path |-> Some("/dev/dri/card1"), connectors |-> <<>>])]

add_drm_lease_device(ad, name) ==
    [ad EXCEPT !.drm_lease_devices = Append(@,
        [name |-> name, device_path |-> None, connectors |-> <<>>])]

update_drm_lease_device_path(ad, device_index, path) ==
    IF InRange(ad.drm_lease_devices, device_index)
    THEN [ad EXCEPT !.drm_lease_devices[device_index + 1].device_path = Some(path)]
    ELSE ad

add_drm_lease_connector(ad, device_index, name, description, connector_id) ==
    IF InRange(ad.drm_lease_devices, device_index)
    THEN [ad EXCEPT !.drm_lease_devices[device_index + 1].connectors = Append(@,
            [name |-> name, description |-> description, connector_id |-> connector_id])]
    ELSE ad

\* A faulty variant: the record does not keep the numeric name of its global.
add_presentation_unnamed(ad, name) ==
    [ad EXCEPT !.presentation_info = Append(@, [name |-> 0, clock_id |-> None])]

add_presentation(ad, name) ==
    [ad EXCEPT !.presentation_info = Append(@, [name |-> name, clock_id |-> None])]

update_presentation_clock_id(ad, presentation_index, clock_id) ==
    IF InRange(ad.presentation_info, presentation_index)
    THEN [ad EXCEPT !.presentation_info[presentation_index + 1].clock_id = Some(clock_id)]
    ELSE ad

\* Dispatch<WpPresentation, UserData>::event
PresentationEvent(ad, data, ev, args) ==
    IF data.kind # "Presentation" THEN ad
    ELSE IF ev = "clock_id" THEN update_presentation_clock_id(ad, data.i, args[1])
    ELSE ad

add_treeland_output_manager(ad, name) ==
    [ad EXCEPT !.treeland_output_managers = Append(@,
        [name |-> name, primary_output |-> None])]

update_treeland_primary_output(ad, manager_index, output_name) ==
    IF InRange(ad.treeland_output_managers, manager_index)
    THEN [ad EXCEPT !.treeland_output_managers[manager_index + 1].primary_output =
            Some(output_name)]
    ELSE ad

\* Dispatch<TreelandOutputManagerV1, UserData>::event
TreelandEvent(ad, data, ev, args) ==
    IF data.kind # "TreelandOutputManager" THEN ad
    ELSE IF ev = "primary_output"
         THEN update_treeland_primary_output(ad, data.i, args[1])
    ELSE ad

(***************************************************************************)
(* protocols/xdg_output.rs                                                 *)
(***************************************************************************)
add_xdg_output_manager(ad, name) ==
    [ad EXCEPT !.xdg_output_managers = Append(@, [name |-> name, outputs |-> <<>>])]

\* A faulty variant: a manager gets the placeholder of its first output only.
add_xdg_output_single(ad, manager_index, output_id) ==
    IF InRange(ad.xdg_output_managers, manager_index)
       /\ ad.xdg_output_managers[manager_index + 1].outputs = <<>>
    THEN [ad EXCEPT !.xdg_output_managers[manager_index + 1].outputs = Append(@,
            [ output_id |-> output_id, name |-> "", description |-> "",
              logical_x |-> 0, logical_y |-> 0,
              logical_width |-> 0, logical_height |-> 0 ])]
    ELSE ad

\* A faulty variant: the placeholder is put in front of the manager's list.
add_xdg_output_front(ad, manager_index, output_id) ==
    IF InRange(ad.xdg_output_managers, manager_index)
    THEN [ad EXCEPT !.xdg_output_managers[manager_index + 1].outputs =
            << [ output_id |-> output_id, name |-> "", description |-> "",
                 logical_x |-> 0, logical_y |-> 0,
                 logical_width |-> 0, logical_height |-> 0 ] >> \o @]
    ELSE ad

add_xdg_output(ad, manager_index, output_id) ==
    IF InRange(ad.xdg_output_managers, manager_index)
    THEN [ad EXCEPT !.xdg_output_managers[manager_index + 1].outputs = Append(@,
            [ output_id |-> output_id, name |-> "", description |-> "",
              logical_x |-> 0, logical_y |-> 0,
              logical_width |-> 0, logical_height |-> 0 ])]
    ELSE ad

HasXdgOutput(ad, manager_index, output_index) ==
    /\ InRange(ad.xdg_output_managers, manager_index)
    /\ InRange(ad.xdg_output_managers[manager_index + 1].outputs, output_index)

\* A faulty variant: the name goes to every logical output of the manager.
update_xdg_output_name_all(ad, manager_index, output_index, name) ==
    IF HasXdgOutput(ad, manager_index, output_index)
    THEN [ad EXCEPT !.xdg_output_managers[manager_index + 1].outputs =
            [k \in 1..Len(@) |-> [@[k] EXCEPT !.name = name]]]
    ELSE ad

update_xdg_output_name(ad, manager_index, output_index, name) ==
    IF HasXdgOutput(ad, manager_index, output_index)
    THEN [ad EXCEPT
            !.xdg_output_managers[manager_index + 1].outputs[output_index + 1].name = name]
    ELSE ad

update_xdg_output_description(ad, manager_index, output_index, description) ==
    IF HasXdgOutput(ad, manager_index, output_index)
    THEN [ad EXCEPT
            !.xdg_output_managers[manager_index + 1].outputs[output_index + 1].description =
                description]
    ELSE ad

update_xdg_output_logical_position(ad, manager_index, output_index, x, y) ==
    IF HasXdgOutput(ad, manager_index, output_index)
    THEN [ad EXCEPT
            !.xdg_output_managers[manager_index + 1].outputs[output_index + 1] =
                [@ EXCEPT !.logical_x = x, !.logical_y = y]]
    ELSE ad

update_xdg_output_logical_size(ad, manager_index, output_index, width, height) ==
    IF HasXdgOutput(ad, manager_index, output_index)
    THEN [ad EXCEPT
            !.xdg_output_managers[manager_index + 1].outputs[output_index + 1] =
                [@ EXCEPT !.logical_width = width, !.logical_height = height]]
    ELSE ad

\* Dispatch<ZxdgOutputManagerV1, UserData>::event: the body is empty.
XdgOutputManagerEvent(ad, data, ev, args) == ad

\* Dispatch<ZxdgOutputV1, UserData>::event
XdgOutputEvent(ad, data, ev, args) ==
    IF data.kind # "XdgOutput" THEN ad
    ELSE CASE ev = "name" -> update_xdg_output_name(ad, data.i, data.j, args[1])
           [] ev = "description" ->
                update_xdg_output_description(ad, data.i, data.j, args[1])
           [] ev = "logical_position" ->
                update_xdg_output_logical_position(ad, data.i, data.j, args[1], args[2])
           [] ev = "logical_size" ->
                update_xdg_output_logical_size(ad, data.i, data.j, args[1], args[2])
           [] OTHER -> ad

(***************************************************************************)
(* The connection.  A request is [req, iface, args, data, at]: iface is    *)
(* the interface of the object the request creates, data the UserData      *)
(* attached to its proxy, at the position of main() that issued it.  The   *)
(* k-th request creates object k, so a proxy is the number k.              *)
(* An event is [obj, ev, args, cause]: cause is the request the compositor *)
(* answers with it, 0 for an event it volunteers.                          *)
(***************************************************************************)
Request(req, iface, args, data, at) ==
    [req |-> req, iface |-> iface, args |-> args, data |-> data, at |-> at]

Event(obj, ev, args, cause) == [obj |-> obj, ev |-> ev, args |-> args, cause |-> cause]

(***************************************************************************)
(* protocols/registry.rs: Dispatch<WlRegistry, ()>::event.  The result is  *)
(* the new AppData and the requests written so far.                        *)
(***************************************************************************)
RegistryEvent(ad, snt, registry, ev, args, at) ==
    IF ev # "global" THEN [app_data |-> ad, sent |-> snt]
    ELSE
    LET name == args[1]
        interface == args[2]
        version == args[3]
        proxy == Len(snt) + 1
        bind(data) == Append(snt, Request("bind", interface, <<name, version>>, data, at))
        bound ==
            CASE interface = "wl_seat" ->
                    LET ad1 == add_seat(ad, name, "seat" \o ToString(Len(ad.seats)))
                        seat_index == Len(ad1.seats) - 1
                    IN  [ app_data |-> [ad1 EXCEPT !.seat_objects = Append(@, proxy)],
                          sent |-> bind(UserData("Seat", seat_index, 0)) ]
              [] interface = "wl_output" ->
                    LET ad1 == add_output(ad, name, "output" \o ToString(Len(ad.outputs)))
                        output_index == Len(ad1.outputs) - 1
                    IN  [ app_data |-> [ad1 EXCEPT !.output_objects = Append(@, proxy)],
                          sent |-> bind(UserData("Output", output_index, 0)) ]
              [] interface = "wl_shm" ->
                    LET ad1 == add_shm(ad, name)
                        shm_index == Len(ad1.shm_info) - 1
                    IN  [ app_data |-> [ad1 EXCEPT !.shm_objects = Append(@, proxy)],
                          sent |-> bind(UserData("Shm", shm_index, 0)) ]
              [] interface = "wp_drm_lease_device_v1" ->
                    [ app_data |-> add_drm_lease_device(ad, name), sent |-> snt ]
              [] interface = "wp_presentation" ->
                    LET ad1 == add_presentation(ad, name)
                        presentation_index == Len(ad1.presentation_info) - 1
                    IN  [ app_data |->
                            [ad1 EXCEPT !.presentation_objects = Append(@, proxy)],
                          sent |-> bind(UserData("Presentation", presentation_index, 0)) ]
              [] interface = "treeland_output_manager_v1" ->
                    LET ad1 == add_treeland_output_manager(ad, name)
                        manager_index == Len(ad1.treeland_output_managers) - 1
                    IN  [ app_data |->
                            [ad1 EXCEPT !.treeland_output_manager_objects = Append(@, proxy)],
                          sent |-> bind(UserData("TreelandOutputManager", manager_index, 0)) ]
              [] interface = "zxdg_output_manager_v1" ->
                    LET ad1 == add_xdg_output_manager(ad, name)
                        manager_index == Len(ad1.xdg_output_managers) - 1
                    IN  [ app_data |->
                            [ad1 EXCEPT !.xdg_output_manager_objects = Append(@, proxy)],
                          sent |-> bind(UserData("XdgOutputManager", manager_index, 0)) ]
              [] OTHER -> [ app_data |-> ad, sent |-> snt ]
    IN  [ app_data |-> add_global(bound.app_data, name, interface, version),
          sent |-> bound.sent ]

\* The Dispatch implementation chosen by the interface of the event's proxy.
HandleEvent(ad, snt, e, at) ==
    LET iface == snt[e.obj].iface
        data == snt[e.obj].data
        only(ad1) == [app_data |-> ad1, sent |-> snt]
    IN  CASE iface = "wl_registry" -> RegistryEvent(ad, snt, e.obj, e.ev, e.args, at)
          [] iface = "wl_seat" -> only(SeatEvent(ad, data, e.ev, e.args))
          [] iface = "wl_keyboard" -> only(KeyboardEvent(ad, data, e.ev, e.args))
          [] iface = "wl_output" -> only(OutputEvent(ad, data, e.ev, e.args))
          [] iface = "wl_shm" -> only(ShmEvent(ad, data, e.ev, e.args))
          [] iface = "wp_presentation" -> only(PresentationEvent(ad, data, e.ev, e.args))
          [] iface = "treeland_output_manager_v1" ->
                only(TreelandEvent(ad, data, e.ev, e.args))
          [] iface = "zxdg_output_manager_v1" ->
                only(XdgOutputManagerEvent(ad, data, e.ev, e.args))
          [] iface = "zxdg_output_v1" -> only(XdgOutputEvent(ad, data, e.ev, e.args))
          [] OTHER -> only(ad)

(***************************************************************************)
(* The compositor.  It handles the requests in the order they were written *)
(* and answers each when it handles it; besides, it may volunteer one      *)
(* event in a run: a late global or a change of a keyboard's repeat.       *)
(* The client sees only the order of the events it reads, so the           *)
(* compositor is taken to write while the client is inside roundtrip() and *)
(* has read what was written before: every order in which events can be    *)
(* read, and every split of them over the roundtrips, is still produced.   *)
(***************************************************************************)
DetailInterfaces ==
    { "wl_seat", "wl_output", "wl_shm", "wp_drm_lease_device_v1", "wp_presentation",
      "treeland_output_manager_v1", "zxdg_output_manager_v1" }

Interfaces == DetailInterfaces \cup {"wl_compositor"}

\* The interfaces of the globals the compositor of a run advertises.
Advertised == {"wl_seat", "wl_output", "zxdg_output_manager_v1", "wl_shm"}

AdvertisedVersion(interface) ==
    CASE interface = "wl_seat" -> 7
      [] interface = "wl_output" -> 4
      [] interface = "zxdg_output_manager_v1" -> 3
      [] interface = "wl_compositor" -> 5
      [] OTHER -> 1

\* The k-th advertised global gets the numeric name k.
Advertise(interfaces) ==
    [k \in 1..Len(interfaces) |->
        [name |-> k, interface |-> interfaces[k],
         version |-> AdvertisedVersion(interfaces[k])]]

\* The numeric name of the global an object was bound to.
GlobalOf(snt, obj) == snt[obj].args[1]

\* The events answering request k.  The values are fixed per object, and
\* differ between the keyboards of different seats; the seat of the global
\* named 2 has a pointer only, the others a pointer and a keyboard.
SrvAnswer(snt, k, globals) ==
    LET r == snt[k]
        ev(name, args) == Event(k, name, args, k)
    IN  CASE r.req = "get_registry" ->
                [g \in 1..Len(globals) |->
                    ev("global", <<globals[g].name, globals[g].interface,
                                   globals[g].version>>)]
          [] r.req = "sync" -> <<ev("done", <<0>>)>>
          [] r.req = "bind" /\ r.iface = "wl_seat" ->
                << ev("capabilities", <<IF r.args[1] = 2 THEN 1 ELSE 3>>),
                   ev("name", <<"default">>) >>
          [] r.req = "bind" /\ r.iface = "wl_output" ->
                << ev("geometry", <<0, 0, 340, 190, 0, "ACME", "Panel", 0>>),
                   ev("mode", <<3, 1920, 1080, 60000>>),
                   ev("scale", <<1>>),
                   ev("name", <<"eDP-" \o ToString(r.args[1])>>),
                   ev("description", <<"Built-in display">>),
                   ev("done", <<>>) >>
          [] r.req = "bind" /\ r.iface = "wl_shm" ->
                <<ev("format", <<0>>), ev("format", <<875713112>>)>>
          [] r.req = "bind" /\ r.iface = "wp_presentation" -> <<ev("clock_id", <<1>>)>>
          [] r.req = "bind" /\ r.iface = "treeland_output_manager_v1" ->
                <<ev("primary_output", <<"eDP-1">>)>>
          [] r.req = "get_xdg_output" ->
                << ev("logical_position", <<0, 0>>),
                   ev("logical_size", <<1920, 1080>>),
                   ev("name", <<"eDP-" \o ToString(GlobalOf(snt, r.args[2]))>>),
                   ev("description", <<"Built-in display">>),
                   ev("done", <<>>) >>
          [] r.req = "get_keyboard" ->
                << ev("keymap", <<1>>),
                   ev("repeat_info", <<24 + GlobalOf(snt, r.args[1]), 600>>) >>
          [] OTHER -> <<>>

\* The compositor writes when the client is reading and has nothing left to read.
SrvTurn == rt.state # "idle" /\ events = <<>>

\* A volunteered event is read in one of the roundtrips: it is written just
\* before the answer to that roundtrip's sync.
SrvMayVolunteer ==
    /\ SrvTurn
    /\ ~srv.volunteered
    /\ srv.handled < Len(sent)
    /\ sent[srv.handled + 1].req = "sync"

SrvHandle ==
    /\ SrvTurn
    /\ srv.handled < Len(sent)
    /\ events' = events \o SrvAnswer(sent, srv.handled + 1, srv.globals)
    /\ srv' = [srv EXCEPT !.handled = @ + 1]
    /\ UNCHANGED <<pc, rt, main, app_data, sent, hist, cli, out>>

\* The objects the compositor knows, by the interface they have.
SrvObjects(iface) == {k \in 1..srv.handled : sent[k].iface = iface}

\* A global advertised after the registry was created.
SrvAnnounce ==
    /\ SrvMayVolunteer
    /\ Len(srv.globals) < MaxGlobals
    /\ \E registry \in SrvObjects("wl_registry"), interface \in Advertised :
          LET g == [ name |-> Len(srv.globals) + 1, interface |-> interface,
                     version |-> AdvertisedVersion(interface) ]
          IN  /\ srv' = [srv EXCEPT !.volunteered = TRUE, !.globals = Append(@, g)]
              /\ events' = Append(events,
                    Event(registry, "global", <<g.name, g.interface, g.version>>, 0))
    /\ UNCHANGED <<pc, rt, main, app_data, sent, hist, cli, out>>

\* A keyboard's repeat settings change.
SrvRepeatChange ==
    /\ SrvMayVolunteer
    /\ \E keyboard \in SrvObjects("wl_keyboard") :
          events' = Append(events, Event(keyboard, "repeat_info", <<40, 400>>, 0))
    /\ srv' = [srv EXCEPT !.volunteered = TRUE]
    /\ UNCHANGED <<pc, rt, main, app_data, sent, hist, cli, out>>

(***************************************************************************)
(* main.rs: main().                                                        *)
(***************************************************************************)
\* A faulty variant: one drain barrier less.
DrainRoundsShort == 5 - 1

\* for _ in 0..5
DrainRounds == 5

\* The exit status of a process whose main thread panicked.
PanicExitCode == 101

MainLocals ==
    [ managers |-> <<>>, outputs |-> <<>>, xdg_output_objects |-> <<>>,
      xdg_output_infos |-> <<>>, seat_objects |-> <<>>,
      pair |-> 0, info |-> 0, index |-> 0, round |-> 0 ]

\* The (manager_index, output_index) pairs in the order of the nested loops.
RECURSIVE PairsFrom(_, _, _, _)
PairsFrom(m, o, managers, outputs) ==
    IF m >= managers THEN <<>>
    ELSE IF o >= outputs THEN PairsFrom(m + 1, 0, managers, outputs)
    ELSE <<(<<m, o>>)>> \o PairsFrom(m, o + 1, managers, outputs)

\* A faulty variant: every manager is paired with the first output only.
PairsOfFirstOutput(managers, outputs) ==
    PairsFrom(0, 0, managers, IF outputs > 1 THEN 1 ELSE outputs)

Pairs(managers, outputs) == PairsFrom(0, 0, managers, outputs)

\* xdg_output_infos.into_iter().enumerate(), flattened in loop order.
RECURSIVE InfosFrom(_, _, _)
InfosFrom(m, k, infos) ==
    IF m > Len(infos) THEN <<>>
    ELSE IF k > Len(infos[m]) THEN InfosFrom(m + 1, 1, infos)
    ELSE <<(<<m - 1, infos[m][k]>>)>> \o InfosFrom(m, k + 1, infos)

Infos(infos) == InfosFrom(1, 1, infos)

Log(step) == hist' = [hist EXCEPT !.log = Append(@, step)]

\* The error a Result carried is noted in the history.
Failed(what) == hist' = [hist EXCEPT !.error = Some(what)]

\* A faulty variant: the Err is dropped and main() goes on to the rendering.
PanicSwallowed ==
    /\ pc' = "output"
    /\ out' = out

\* .unwrap() on an Err: the thread panics and the process exits.
Panic ==
    /\ pc' = "panicked"
    /\ out' = [out EXCEPT !.exit_code = Some(PanicExitCode)]

\* Connection::connect_to_env().unwrap()
Connect ==
    /\ pc = "connect"
    /\ pc' = "get_registry"
    /\ UNCHANGED <<rt, main, app_data, sent, srv, events, hist, cli, out>>

ConnectError ==
    /\ pc = "connect"
    /\ Failed("connect")
    /\ Panic
    /\ UNCHANGED <<rt, main, app_data, sent, srv, events, cli>>

\* display.get_registry(&qh, ())
GetRegistry ==
    /\ pc = "get_registry"
    /\ sent' = Append(sent, Request("get_registry", "wl_registry", <<>>, UnitData, pc))
    /\ pc' = "roundtrip_globals"
    /\ UNCHANGED <<rt, main, app_data, srv, events, hist, cli, out>>

RoundtripPcs == {"roundtrip_globals", "roundtrip_seat", "roundtrip_drain"}

\* A faulty variant: a roundtrip that is still waiting writes its sync again.
RoundtripCallRetrying ==
    /\ pc \in RoundtripPcs
    /\ rt.state \in {"idle", "waiting"}
    /\ sent' = Append(sent, Request("sync", "wl_callback", <<>>, SyncData, pc))
    /\ rt' = [state |-> "waiting", callback |-> Len(sent) + 1]
    /\ UNCHANGED <<pc, main, app_data, srv, events, hist, cli, out>>

\* event_queue.roundtrip(): the sync request is written.
RoundtripCall ==
    /\ pc \in RoundtripPcs
    /\ rt.state = "idle"
    /\ sent' = Append(sent, Request("sync", "wl_callback", <<>>, SyncData, pc))
    /\ rt' = [state |-> "waiting", callback |-> Len(sent) + 1]
    /\ UNCHANGED <<pc, main, app_data, srv, events, hist, cli, out>>

\* Events are dispatched only inside roundtrip().
Dispatching == rt.state # "idle"

\* One event is taken from the queue and given to its handler.
Dispatch ==
    /\ Dispatching
    /\ events # <<>>
    /\ LET e == Head(events)
           got == HandleEvent(app_data, sent, e, pc)
       IN  /\ app_data' = got.app_data
           /\ sent' = got.sent
           /\ rt' = IF e.obj = rt.callback THEN [rt EXCEPT !.state = "done"] ELSE rt
           /\ hist' = IF sent[e.obj].iface = "wl_keyboard" /\ e.ev = "repeat_info"
                      THEN [hist EXCEPT !.repeat_from = @ \cup {e.obj}]
                      ELSE hist
    /\ events' = Tail(events)
    /\ UNCHANGED <<pc, main, srv, cli, out>>

\* roundtrip() returns Err, from the flush or the blocking read it reaches
\* with nothing left to dispatch: .unwrap() panics.
TransportError ==
    /\ rt.state = "waiting"
    /\ events = <<>>
    /\ Failed("roundtrip")
    /\ Panic
    /\ rt' = [rt EXCEPT !.state = "idle"]
    /\ UNCHANGED <<main, app_data, sent, srv, events, cli>>

\* A faulty variant: a single drain barrier.
AfterRoundtripOneDrain ==
    CASE pc = "roundtrip_globals" -> [pc |-> "drain_objects", main |-> main]
      [] pc = "roundtrip_seat" ->
            [ pc |-> IF main.index + 1 < Len(main.seat_objects)
                     THEN "get_keyboard" ELSE "roundtrip_drain",
              main |-> [main EXCEPT !.index = @ + 1] ]
      [] pc = "roundtrip_drain" ->
            [pc |-> "output", main |-> [main EXCEPT !.round = @ + 1]]

\* What main() does next when a roundtrip has returned Ok.
AfterRoundtrip ==
    CASE pc = "roundtrip_globals" -> [pc |-> "drain_objects", main |-> main]
      [] pc = "roundtrip_seat" ->
            [ pc |-> IF main.index + 1 < Len(main.seat_objects)
                     THEN "get_keyboard" ELSE "roundtrip_drain",
              main |-> [main EXCEPT !.index = @ + 1] ]
      [] pc = "roundtrip_drain" ->
            [ pc |-> IF main.round + 1 < DrainRounds THEN "roundtrip_drain" ELSE "output",
              main |-> [main EXCEPT !.round = @ + 1] ]

\* A faulty variant: roundtrip() may return before the callback has fired.
RoundtripReturnEarly ==
    /\ pc \in RoundtripPcs
    /\ rt.state # "idle"
    /\ rt' = [rt EXCEPT !.state = "idle"]
    /\ pc' = AfterRoundtrip.pc
    /\ main' = AfterRoundtrip.main
    /\ hist' = [hist EXCEPT
            !.log = Append(@, <<"roundtrip">>),
            !.known = IF pc = "roundtrip_globals"
                      THEN Some([ seats |-> Len(app_data.seats),
                                  outputs |-> Len(app_data.outputs),
                                  managers |-> Len(app_data.xdg_output_managers) ])
                      ELSE @]
    /\ UNCHANGED <<app_data, sent, srv, events, cli, out>>

\* roundtrip() returns Ok once the callback of its sync has fired.
RoundtripReturn ==
    /\ pc \in RoundtripPcs
    /\ rt.state = "done"
    /\ rt' = [rt EXCEPT !.state = "idle"]
    /\ pc' = AfterRoundtrip.pc
    /\ main' = AfterRoundtrip.main
    /\ hist' = [hist EXCEPT
            !.log = Append(@, <<"roundtrip">>),
            !.known = IF pc = "roundtrip_globals"
                      THEN Some([ seats |-> Len(app_data.seats),
                                  outputs |-> Len(app_data.outputs),
                                  managers |-> Len(app_data.xdg_output_managers) ])
                      ELSE @]
    /\ UNCHANGED <<app_data, sent, srv, events, cli, out>>

\* The proxies are taken out of app_data (drain(..).collect()).
DrainObjects ==
    /\ pc = "drain_objects"
    /\ main' = [main EXCEPT
            !.managers = app_data.xdg_output_manager_objects,
            !.outputs = app_data.output_objects,
            !.xdg_output_objects = <<>>,
            !.xdg_output_infos =
                [m \in 1..Len(app_data.xdg_output_manager_objects) |-> <<>>]]
    /\ app_data' = [app_data EXCEPT !.xdg_output_manager_objects = <<>>,
                                    !.output_objects = <<>>]
    /\ pc' = "bind_xdg"
    /\ UNCHANGED <<rt, sent, srv, events, hist, cli, out>>

\* One iteration of the nested loops: manager.get_xdg_output(output, ..).
BindXdgOutput ==
    /\ pc = "bind_xdg"
    /\ main.pair < Len(Pairs(Len(main.managers), Len(main.outputs)))
    /\ LET p == Pairs(Len(main.managers), Len(main.outputs))[main.pair + 1]
           manager_index == p[1]
           output_index == p[2]
       IN  /\ sent' = Append(sent,
                  Request("get_xdg_output", "zxdg_output_v1",
                          <<main.managers[manager_index + 1], main.outputs[output_index + 1]>>,
                          UserData("XdgOutput", manager_index, output_index), pc))
           /\ main' = [main EXCEPT
                  !.xdg_output_objects = Append(@, Len(sent) + 1),
                  !.xdg_output_infos[manager_index + 1] = Append(@, output_index),
                  !.pair = @ + 1]
           /\ Log(<<"get_xdg_output", manager_index, output_index>>)
    /\ UNCHANGED <<pc, rt, app_data, srv, events, cli, out>>

\* Put objects back into app_data.
PutBack ==
    /\ pc = "bind_xdg"
    /\ main.pair = Len(Pairs(Len(main.managers), Len(main.outputs)))
    /\ app_data' = [app_data EXCEPT
            !.xdg_output_manager_objects = main.managers,
            !.output_objects = main.outputs,
            !.xdg_output_objects = main.xdg_output_objects]
    /\ pc' = "add_xdg"
    /\ UNCHANGED <<rt, main, sent, srv, events, hist, cli, out>>

\* One iteration of the loops over xdg_output_infos: app_data.add_xdg_output(..).
AddXdgOutput ==
    /\ pc = "add_xdg"
    /\ main.info < Len(Infos(main.xdg_output_infos))
    /\ LET i == Infos(main.xdg_output_infos)[main.info + 1]
       IN  app_data' = add_xdg_output(app_data, i[1], i[2])
    /\ main' = [main EXCEPT !.info = @ + 1]
    /\ UNCHANGED <<pc, rt, sent, srv, events, hist, cli, out>>

\* A faulty variant: only the seats recorded with a keyboard are drained.
DrainSeatsWithKeyboard ==
    /\ pc = "add_xdg"
    /\ main.info = Len(Infos(main.xdg_output_infos))
    /\ LET with == {i \in 1..Len(app_data.seat_objects) :
                        "keyboard" \in Range(app_data.seats[i].capabilities)}
           HasKeyboard(proxy) == \E i \in with : app_data.seat_objects[i] = proxy
           kept == SelectSeq(app_data.seat_objects, HasKeyboard)
       IN  /\ main' = [main EXCEPT !.seat_objects = kept, !.index = 0]
           /\ pc' = IF Len(kept) > 0 THEN "get_keyboard" ELSE "roundtrip_drain"
    /\ app_data' = [app_data EXCEPT !.seat_objects = <<>>]
    /\ UNCHANGED <<rt, sent, srv, events, hist, cli, out>>

\* A faulty variant: the records of the seats are drained with their proxies.
DrainSeatsWithRecords ==
    /\ pc = "add_xdg"
    /\ main.info = Len(Infos(main.xdg_output_infos))
    /\ main' = [main EXCEPT !.seat_objects = app_data.seat_objects, !.index = 0]
    /\ app_data' = [app_data EXCEPT !.seat_objects = <<>>, !.seats = <<>>]
    /\ pc' = IF Len(app_data.seat_objects) > 0 THEN "get_keyboard" ELSE "roundtrip_drain"
    /\ UNCHANGED <<rt, sent, srv, events, hist, cli, out>>

\* app_data.seat_objects.drain(..).collect()
DrainSeats ==
    /\ pc = "add_xdg"
    /\ main.info = Len(Infos(main.xdg_output_infos))
    /\ main' = [main EXCEPT !.seat_objects = app_data.seat_objects, !.index = 0]
    /\ app_data' = [app_data EXCEPT !.seat_objects = <<>>]
    /\ pc' = IF Len(app_data.seat_objects) > 0 THEN "get_keyboard" ELSE "roundtrip_drain"
    /\ UNCHANGED <<rt, sent, srv, events, hist, cli, out>>

\* A faulty variant: every keyboard is tagged with the first seat.
seat_data_first(index) == UserData("Seat", 0, 0)

\* The UserData of the keyboard bound for the seat at index.
seat_data(index) == UserData("Seat", index, 0)

\* A faulty variant: the keyboards of all seats are bound before one barrier.
GetKeyboardBatch ==
    /\ pc = "get_keyboard"
    /\ sent' = Append(sent,
            Request("get_keyboard", "wl_keyboard", <<main.seat_objects[main.index + 1]>>,
                    seat_data(main.index), pc))
    /\ Log(<<"get_keyboard", main.index>>)
    /\ IF main.index + 1 < Len(main.seat_objects)
       THEN pc' = pc /\ main' = [main EXCEPT !.index = @ + 1]
       ELSE pc' = "roundtrip_seat" /\ main' = main
    /\ UNCHANGED <<rt, app_data, srv, events, cli, out>>

\* seat.get_keyboard(&qh, seat_data)
GetKeyboard ==
    /\ pc = "get_keyboard"
    /\ sent' = Append(sent,
            Request("get_keyboard", "wl_keyboard", <<main.seat_objects[main.index + 1]>>,
                    seat_data(main.index), pc))
    /\ Log(<<"get_keyboard", main.index>>)
    /\ pc' = "roundtrip_seat"
    /\ UNCHANGED <<rt, main, app_data, srv, events, cli, out>>

(***************************************************************************)
(* output.rs: the renderers.  Text output is the sequence of printed       *)
(* lines, without the colour escapes; a value kept as bytes is printed as  *)
(* the list of its codes.                                                  *)
(***************************************************************************)
\* The UTF-8 bytes of the interface names the model uses.
Utf8(s) ==
    CASE s = "wl_seat" ->
            <<119, 108, 95, 115, 101, 97, 116>>
      [] s = "wl_output" ->
            <<119, 108, 95, 111, 117, 116, 112, 117, 116>>
      [] s = "wl_shm" ->
            <<119, 108, 95, 115, 104, 109>>
      [] s = "wp_drm_lease_device_v1" ->
            <<119, 112, 95, 100, 114, 109, 95, 108, 101, 97, 115, 101, 95, 100, 101, 118, 105, 99, 101, 95, 118, 49>>
      [] s = "wp_presentation" ->
            <<119, 112, 95, 112, 114, 101, 115, 101, 110, 116, 97, 116, 105, 111, 110>>
      [] s = "treeland_output_manager_v1" ->
            <<116, 114, 101, 101, 108, 97, 110, 100, 95, 111, 117, 116, 112, 117, 116, 95, 109, 97, 110, 97, 103, 101, 114, 95, 118, 49>>
      [] s = "zxdg_output_manager_v1" ->
            <<122, 120, 100, 103, 95, 111, 117, 116, 112, 117, 116, 95, 109, 97, 110, 97, 103, 101, 114, 95, 118, 49>>
      [] s = "wl_compositor" ->
            <<119, 108, 95, 99, 111, 109, 112, 111, 115, 105, 116, 111, 114>>

\* Ordering of two byte strings as str::cmp orders them: -1, 0 or 1.
RECURSIVE BytesCmp(_, _)
BytesCmp(a, b) ==
    IF a = <<>> /\ b = <<>> THEN 0
    ELSE IF a = <<>> THEN -1
    ELSE IF b = <<>> THEN 1
    ELSE IF Head(a) < Head(b) THEN -1
    ELSE IF Head(a) > Head(b) THEN 1
    ELSE BytesCmp(Tail(a), Tail(b))

\* a.interface.cmp(&b.interface)
interface_cmp(a, b) == BytesCmp(Utf8(a.interface), Utf8(b.interface))

\* A faulty variant: g goes in front of the elements it compares equal to.
RECURSIVE InsertBeforeEqual(_, _)
InsertBeforeEqual(sorted, g) ==
    IF sorted = <<>> THEN <<g>>
    ELSE IF interface_cmp(g, Head(sorted)) <= 0 THEN <<g>> \o sorted
    ELSE <<Head(sorted)>> \o InsertBeforeEqual(Tail(sorted), g)

\* g goes behind every element that does not compare greater than it.
RECURSIVE InsertStable(_, _)
InsertStable(sorted, g) ==
    IF sorted = <<>> THEN <<g>>
    ELSE IF interface_cmp(g, Head(sorted)) < 0 THEN <<g>> \o sorted
    ELSE <<Head(sorted)>> \o InsertStable(Tail(sorted), g)

\* globals.sort_by(|a, b| a.interface.cmp(&b.interface)): a stable sort.
RECURSIVE sort_by_interface(_)
sort_by_interface(globals) ==
    IF globals = <<>> THEN <<>>
    ELSE InsertStable(sort_by_interface(SubSeq(globals, 1, Len(globals) - 1)),
                      globals[Len(globals)])

\* protocol_filter.is_none_or(|p| g.interface == p)
MatchesFilter(g, protocol_filter) ==
    protocol_filter = None \/ g.interface = protocol_filter[1]

RECURSIVE FilterGlobals(_, _)
FilterGlobals(globals, protocol_filter) ==
    IF globals = <<>> THEN <<>>
    ELSE IF MatchesFilter(Head(globals), protocol_filter)
         THEN <<Head(globals)>> \o FilterGlobals(Tail(globals), protocol_filter)
    ELSE FilterGlobals(Tail(globals), protocol_filter)

\* The globals a renderer shows, in the order it shows them.
ShownGlobals(ad, sort_output, protocol_filter) ==
    LET globals == FilterGlobals(ad.globals, protocol_filter)
    IN  IF sort_output THEN sort_by_interface(globals) ELSE globals

\* iter().find(|r| r.name == name)
RECURSIVE FindByName(_, _)
FindByName(records, name) ==
    IF records = <<>> THEN None
    ELSE IF Head(records).name = name THEN Some(Head(records))
    ELSE FindByName(Tail(records), name)

\* A faulty variant: every protocol passes for one with a detail renderer.
protocol_has_details_any(protocol) == protocol \in Interfaces

protocol_has_details(protocol) == protocol \in DetailInterfaces

RECURSIVE Spaces(_)
Spaces(n) == IF n <= 0 THEN "" ELSE " " \o Spaces(n - 1)

\* {:<w$}
PadRight(s, w) == s \o Spaces(w - Len(s))

\* {:0>3} of a number below 1000
Pad3(n) == IF n < 10 THEN "00" \o ToString(n)
           ELSE IF n < 100 THEN "0" \o ToString(n) ELSE ToString(n)

\* {:.3} of refresh as f32 / 1000.0, for 0 <= refresh < 2^24, where the
\* quotient rounds to the three decimals of refresh / 1000.
MilliHz(refresh) == ToString(refresh \div 1000) \o "." \o Pad3(refresh % 1000)

\* A faulty variant: the numeric name is printed with --sort as well.
GlobalLineWithName(global, sort_output) ==
    "name: " \o PadRight(ToString(global.name), 4)
    \o " interface: " \o PadRight(global.interface, 45)
    \o " version: " \o ToString(global.version)

GlobalLine(global, sort_output) ==
    IF sort_output
    THEN "interface: " \o PadRight(global.interface, 45)
         \o " version: " \o ToString(global.version)
    ELSE "name: " \o PadRight(ToString(global.name), 4)
         \o " interface: " \o PadRight(global.interface, 45)
         \o " version: " \o ToString(global.version)

NoDetailsLine ==
    "        [Info] wayland-info-rs does not implement details for this protocol"

NotSupportedLine(protocol) == "Protocol not supported: " \o protocol

HeaderLine == "Wayland Global Interfaces:"

OptLine(opt, prefix) == IF IsSome(opt) THEN <<prefix \o ToString(opt[1])>> ELSE <<>>

SeatLines(ad, global) ==
    LET found == FindByName(ad.seats, global.name)
    IN  IF found = None THEN <<>>
        ELSE LET seat == found[1]
             IN  <<"        name: " \o seat.seat_name>>
                 \o (IF seat.capabilities # <<>>
                     THEN <<"        capabilities: " \o Join(seat.capabilities, " ")>>
                     ELSE <<>>)
                 \o OptLine(seat.keyboard_repeat_rate, "        keyboard repeat rate: ")
                 \o OptLine(seat.keyboard_repeat_delay, "        keyboard repeat delay: ")

\* The three lines one println! prints for a mode.
ModeLines(mode) ==
    << "        mode:",
       "                width: " \o ToString(mode.width) \o " px, height: "
            \o ToString(mode.height) \o " px, refresh: " \o MilliHz(mode.refresh) \o " Hz,",
       "                flags: " \o Join(mode.flags, " ") >>

RECURSIVE AllModeLines(_)
AllModeLines(modes) ==
    IF modes = <<>> THEN <<>> ELSE ModeLines(Head(modes)) \o AllModeLines(Tail(modes))

OutputLines(ad, global) ==
    LET found == FindByName(ad.outputs, global.name)
    IN  IF found = None THEN <<>>
        ELSE LET output == found[1]
             IN  <<"        name: " \o output.output_name>>
                 \o (IF output.description # ""
                     THEN <<"        description: " \o output.description>> ELSE <<>>)
                 \o << "        x: " \o ToString(output.x) \o ", y: " \o ToString(output.y)
                            \o ", scale: " \o ToString(output.scale) \o ",",
                       "        physical_width: " \o ToString(output.physical_width)
                            \o " mm, physical_height: "
                            \o ToString(output.physical_height) \o " mm," >>
                 \o (IF output.make # ""
                     THEN <<"        make: '" \o output.make \o "', model: '"
                                \o output.model \o "',">>
                     ELSE <<>>)
                 \o <<"        subpixel_orientation: " \o output.subpixel_orientation
                            \o ", output_transform: " \o output.output_transform \o ",">>
                 \o AllModeLines(output.modes)

ShmLines(ad, global) ==
    LET found == FindByName(ad.shm_info, global.name)
    IN  IF found = None THEN <<>>
        ELSE [k \in 1..Len(found[1].formats) |->
                "        format: " \o ToString(found[1].formats[k].fourcc)
                \o " (" \o ToString(found[1].formats[k].format) \o ")"]

DrmLeaseLines(ad, global) ==
    LET found == FindByName(ad.drm_lease_devices, global.name)
    IN  IF found = None THEN <<"        [Warning] DRM Lease device info not found!">>
        ELSE LET device == found[1]
             IN  (IF IsSome(device.device_path)
                  THEN <<"        path: " \o device.device_path[1]>>
                  ELSE <<"        path: /dev/dri/card1">>)
                 \o (IF device.connectors # <<>>
                     THEN <<"        connectors:">>
                          \o [k \in 1..Len(device.connectors) |->
                                "                name: " \o device.connectors[k].name
                                \o ", description: " \o device.connectors[k].description
                                \o ", connector_id: "
                                \o ToString(device.connectors[k].connector_id)]
                     ELSE <<>>)

\* A faulty variant: a record without a clock is printed without a clock line.
PresentationLinesRecorded(ad, global) ==
    LET found == FindByName(ad.presentation_info, global.name)
    IN  IF found = None THEN <<"        [Warning] Presentation info not found!">>
        ELSE IF IsSome(found[1].clock_id)
             THEN <<"        presentation clock id: " \o ToString(found[1].clock_id[1])
                        \o " (CLOCK_MONOTONIC)">>
        ELSE <<>>

PresentationLines(ad, global) ==
    LET found == FindByName(ad.presentation_info, global.name)
    IN  IF found = None THEN <<"        [Warning] Presentation info not found!">>
        ELSE IF IsSome(found[1].clock_id)
             THEN <<"        presentation clock id: " \o ToString(found[1].clock_id[1])
                        \o " (CLOCK_MONOTONIC)">>
        ELSE <<"        presentation clock id: 1 (CLOCK_MONOTONIC)">>

TreelandLines(ad, global) ==
    LET found == FindByName(ad.treeland_output_managers, global.name)
    IN  IF found = None THEN <<>>
        ELSE IF IsSome(found[1].primary_output)
             THEN <<"        Primary output: " \o found[1].primary_output[1]>>
        ELSE <<"        Primary output: <unknown>">>

XdgOutputLines(output) ==
    << "        xdg_output_v1",
       "                output: " \o ToString(output.output_id),
       "                name: '" \o output.name \o "'",
       "                description: '" \o output.description \o "'",
       "                logical_x: " \o ToString(output.logical_x)
            \o ", logical_y: " \o ToString(output.logical_y),
       "                logical_width: " \o ToString(output.logical_width)
            \o ", logical_height: " \o ToString(output.logical_height) >>

RECURSIVE AllXdgOutputLines(_)
AllXdgOutputLines(outputs) ==
    IF outputs = <<>> THEN <<>>
    ELSE XdgOutputLines(Head(outputs)) \o AllXdgOutputLines(Tail(outputs))

XdgManagerLines(ad, global) ==
    LET found == FindByName(ad.xdg_output_managers, global.name)
    IN  IF found = None THEN <<>> ELSE AllXdgOutputLines(found[1].outputs)

\* The chain of "if global.interface == .." blocks of print_all_info.
DetailLines(ad, global) ==
    CASE global.interface = "wl_seat" -> SeatLines(ad, global)
      [] global.interface = "wl_output" -> OutputLines(ad, global)
      [] global.interface = "wl_shm" -> ShmLines(ad, global)
      [] global.interface = "wp_drm_lease_device_v1" -> DrmLeaseLines(ad, global)
      [] global.interface = "wp_presentation" -> PresentationLines(ad, global)
      [] global.interface = "treeland_output_manager_v1" -> TreelandLines(ad, global)
      [] global.interface = "zxdg_output_manager_v1" -> XdgManagerLines(ad, global)
      [] OTHER -> <<>>

\* The body of the for loop of print_all_info for one global.
FullGlobalLines(ad, global, sort_output, protocol_filter) ==
    <<GlobalLine(global, sort_output)>>
    \o (IF IsSome(protocol_filter) /\ ~protocol_has_details(protocol_filter[1])
        THEN <<NoDetailsLine>>
        ELSE DetailLines(ad, global))

\* A faulty variant: the notice follows every global, filter or not.
BasicGlobalLinesNoticed(global, sort_output, protocol_filter) ==
    <<GlobalLine(global, sort_output), NoDetailsLine>>

\* The body of the for loop of print_basic_info for one global.
BasicGlobalLines(global, sort_output, protocol_filter) ==
    <<GlobalLine(global, sort_output)>>
    \o (IF IsSome(protocol_filter) /\ ~protocol_has_details(protocol_filter[1])
        THEN <<NoDetailsLine>>
        ELSE <<>>)

RECURSIVE EachFull(_, _, _, _)
EachFull(ad, globals, sort_output, protocol_filter) ==
    IF globals = <<>> THEN <<>>
    ELSE FullGlobalLines(ad, Head(globals), sort_output, protocol_filter)
         \o EachFull(ad, Tail(globals), sort_output, protocol_filter)

RECURSIVE EachBasic(_, _, _)
EachBasic(globals, sort_output, protocol_filter) ==
    IF globals = <<>> THEN <<>>
    ELSE BasicGlobalLines(Head(globals), sort_output, protocol_filter)
         \o EachBasic(Tail(globals), sort_output, protocol_filter)

\* A faulty variant: the check for an unadvertised protocol is missing.
NotAdvertisedNever(ad, protocol_filter) == FALSE

\* !app_data.globals.iter().any(|g| g.interface == protocol)
NotAdvertised(ad, protocol_filter) ==
    /\ IsSome(protocol_filter)
    /\ \A k \in 1..Len(ad.globals) : ad.globals[k].interface # protocol_filter[1]

print_all_info(ad, sort_output, protocol_filter) ==
    IF NotAdvertised(ad, protocol_filter)
    THEN <<NotSupportedLine(protocol_filter[1])>>
    ELSE <<HeaderLine>>
         \o EachFull(ad, ShownGlobals(ad, sort_output, protocol_filter),
                     sort_output, protocol_filter)

\* A faulty variant: nothing is printed when there is no global to show.
print_basic_info_nonempty(ad, sort_output, protocol_filter) ==
    IF NotAdvertised(ad, protocol_filter)
    THEN <<NotSupportedLine(protocol_filter[1])>>
    ELSE IF ShownGlobals(ad, sort_output, protocol_filter) = <<>> THEN <<>>
    ELSE <<HeaderLine>>
         \o EachBasic(ShownGlobals(ad, sort_output, protocol_filter),
                      sort_output, protocol_filter)

print_basic_info(ad, sort_output, protocol_filter) ==
    IF NotAdvertised(ad, protocol_filter)
    THEN <<NotSupportedLine(protocol_filter[1])>>
    ELSE <<HeaderLine>>
         \o EachBasic(ShownGlobals(ad, sort_output, protocol_filter),
                      sort_output, protocol_filter)

\* A faulty variant: the per-protocol arrays ignore the filter.
JsonArrayUnfiltered(records, interface, protocol_filter) == records

\* A per-protocol array of the full JSON output.
JsonArray(records, interface, protocol_filter) ==
    IF protocol_filter = None \/ protocol_filter = Some(interface) THEN records ELSE <<>>

to_json_output(ad, sort_output, protocol_filter, timestamp_ms) ==
    [ generation_timestamp |-> timestamp_ms,
      globals |-> ShownGlobals(ad, sort_output, protocol_filter),
      seats |-> JsonArray(ad.seats, "wl_seat", protocol_filter),
      outputs |-> JsonArray(ad.outputs, "wl_output", protocol_filter),
      shm_info |-> JsonArray(ad.shm_info, "wl_shm", protocol_filter),
      drm_lease_devices |->
          JsonArray(ad.drm_lease_devices, "wp_drm_lease_device_v1", protocol_filter),
      presentation_info |->
          JsonArray(ad.presentation_info, "wp_presentation", protocol_filter),
      treeland_output_managers |->
          JsonArray(ad.treeland_output_managers, "treeland_output_manager_v1",
                    protocol_filter),
      xdg_output_managers |->
          JsonArray(ad.xdg_output_managers, "zxdg_output_manager_v1", protocol_filter) ]

GlobalSummary(g) == [interface |-> g.interface, version |-> g.version]

to_json_basic(ad, sort_output, protocol_filter, timestamp_ms) ==
    LET matching == FilterGlobals(ad.globals, protocol_filter)
        globals == [k \in 1..Len(matching) |-> GlobalSummary(matching[k])]
    IN  [ generation_timestamp |-> timestamp_ms,
          globals |-> IF sort_output THEN sort_by_interface(globals) ELSE globals ]

\* serde: #[serde(rename_all = "camelCase")], and #[serde(skip_serializing)] on
\* every numeric id.  A JSON array is a sequence, null the empty Option.
JsonGlobal(g) == [interface |-> g.interface, version |-> g.version]

JsonSeat(r) ==
    [ seatName |-> r.seat_name, capabilities |-> r.capabilities,
      keyboardRepeatRate |-> r.keyboard_repeat_rate,
      keyboardRepeatDelay |-> r.keyboard_repeat_delay ]

JsonOutputInfo(r) ==
    [ outputName |-> r.output_name, description |-> r.description,
      x |-> r.x, y |-> r.y, scale |-> r.scale,
      physicalWidth |-> r.physical_width, physicalHeight |-> r.physical_height,
      make |-> r.make, model |-> r.model,
      subpixelOrientation |-> r.subpixel_orientation,
      outputTransform |-> r.output_transform, modes |-> r.modes ]

JsonShm(r) == [formats |-> r.formats]

JsonDrmLeaseDevice(r) ==
    [ devicePath |-> r.device_path,
      connectors |-> [k \in 1..Len(r.connectors) |->
          [ name |-> r.connectors[k].name, description |-> r.connectors[k].description,
            connectorId |-> r.connectors[k].connector_id ]] ]

JsonPresentation(r) == [clockId |-> r.clock_id]

JsonTreeland(r) == [primaryOutput |-> r.primary_output]

JsonXdgOutput(r) ==
    [ name |-> r.name, description |-> r.description,
      logicalX |-> r.logical_x, logicalY |-> r.logical_y,
      logicalWidth |-> r.logical_width, logicalHeight |-> r.logical_height ]

JsonXdgManager(r) ==
    [outputs |-> [k \in 1..Len(r.outputs) |-> JsonXdgOutput(r.outputs[k])]]

\* serde_json::to_string_pretty(&JsonOutput)
SerializeFull(j) ==
    [ generationTimestamp |-> j.generation_timestamp,
      globals |-> [k \in 1..Len(j.globals) |-> JsonGlobal(j.globals[k])],
      seats |-> [k \in 1..Len(j.seats) |-> JsonSeat(j.seats[k])],
      outputs |-> [k \in 1..Len(j.outputs) |-> JsonOutputInfo(j.outputs[k])],
      shmInfo |-> [k \in 1..Len(j.shm_info) |-> JsonShm(j.shm_info[k])],
      drmLeaseDevices |->
          [k \in 1..Len(j.drm_lease_devices) |-> JsonDrmLeaseDevice(j.drm_lease_devices[k])],
      presentationInfo |->
          [k \in 1..Len(j.presentation_info) |-> JsonPresentation(j.presentation_info[k])],
      treelandOutputManagers |->
          [k \in 1..Len(j.treeland_output_managers) |->
              JsonTreeland(j.treeland_output_managers[k])],
      xdgOutputManagers |->
          [k \in 1..Len(j.xdg_output_managers) |->
              JsonXdgManager(j.xdg_output_managers[k])] ]

\* A faulty variant: the basic output carries an array of seats.
SerializeBasicWithSeats(j) ==
    [ generationTimestamp |-> j.generation_timestamp,
      globals |-> [k \in 1..Len(j.globals) |->
          [interface |-> j.globals[k].interface, version |-> j.globals[k].version]],
      seats |-> <<>> ]

\* serde_json::to_string_pretty(&JsonOutputBasic)
SerializeBasic(j) ==
    [ generationTimestamp |-> j.generation_timestamp,
      globals |-> [k \in 1..Len(j.globals) |->
          [interface |-> j.globals[k].interface, version |-> j.globals[k].version]] ]

\* The "Output all info" branches at the end of main(): what is printed.
Render(ad, options, timestamp_ms) ==
    IF options.json_output
    THEN IF options.full_output
         THEN <<SerializeFull(to_json_output(ad, options.sort_output,
                                             options.protocol_filter, timestamp_ms))>>
         ELSE <<SerializeBasic(to_json_basic(ad, options.sort_output,
                                             options.protocol_filter, timestamp_ms))>>
    ELSE IF options.full_output
         THEN print_all_info(ad, options.sort_output, options.protocol_filter)
         ELSE print_basic_info(ad, options.sort_output, options.protocol_filter)

\* The protocol names given with -p that the model tries.
ProtocolChoices == {"wl_seat", "wl_compositor"}

CliOptions ==
    [ json_output : BOOLEAN, full_output : BOOLEAN, sort_output : BOOLEAN,
      protocol_filter : {None} \cup {Some(p) : p \in ProtocolChoices} ]

\* SystemTime::now() since the epoch, 0 when the clock fails (the nonzero
\* value stands for any reading of the clock).
Timestamps == {0, 1700000000}

\* A faulty variant: the renderer filters and sorts the globals in place.
OutputInPlace ==
    /\ pc = "output"
    /\ \E options \in CliOptions, timestamp_ms \in Timestamps :
          /\ cli' = options
          /\ out' = [ stdout |-> Render(app_data, options, timestamp_ms),
                      exit_code |-> Some(0) ]
          /\ app_data' = [app_data EXCEPT !.globals =
                ShownGlobals(app_data, options.sort_output, options.protocol_filter)]
    /\ pc' = "exit"
    /\ UNCHANGED <<rt, main, sent, srv, events, hist>>

\* The options are parsed before the connection is made and first read here.
Output ==
    /\ pc = "output"
    /\ \E options \in CliOptions, timestamp_ms \in Timestamps :
          /\ cli' = options
          /\ out' = [ stdout |-> Render(app_data, options, timestamp_ms),
                      exit_code |-> Some(0) ]
    /\ pc' = "exit"
    /\ UNCHANGED <<rt, main, app_data, sent, srv, events, hist>>

(***************************************************************************)
(* The run: main() against a compositor.                                   *)
(***************************************************************************)
NoHistory ==
    [ log |-> <<>>, known |-> None, repeat_from |-> {}, error |-> None, applied |-> None,
      again |-> None ]

Init ==
    /\ pc = "connect"
    /\ rt = [state |-> "idle", callback |-> 0]
    /\ main = MainLocals
    /\ app_data = AppData_new
    /\ sent = <<>>
    /\ srv \in {[globals |-> Advertise(s), handled |-> 0, volunteered |-> FALSE] :
                    s \in SeqsUpTo(Advertised, MaxGlobals)}
    /\ events = <<>>
    /\ hist = NoHistory
    /\ cli = [ json_output |-> FALSE, full_output |-> TRUE, sort_output |-> FALSE,
               protocol_filter |-> None ]
    /\ out = [stdout |-> <<>>, exit_code |-> None]

Next ==
    \/ Connect
    \/ ConnectError
    \/ GetRegistry
    \/ RoundtripCall
    \/ Dispatch
    \/ TransportError
    \/ RoundtripReturn
    \/ DrainObjects
    \/ BindXdgOutput
    \/ PutBack
    \/ AddXdgOutput
    \/ DrainSeats
    \/ GetKeyboard
    \/ Output
    \/ SrvHandle
    \/ SrvAnnounce
    \/ SrvRepeatChange

Spec == Init /\ [][Next]_vars

\* The steps of the process itself.  main() is the only thread and nothing
\* but a blocking read suspends it, so it takes a step whenever one is
\* possible; whether the compositor ever answers is up to the compositor.
MainStep ==
    \/ Connect
    \/ GetRegistry
    \/ RoundtripCall
    \/ Dispatch
    \/ RoundtripReturn
    \/ DrainObjects
    \/ BindXdgOutput
    \/ PutBack
    \/ AddXdgOutput
    \/ DrainSeats
    \/ GetKeyboard
    \/ Output

\* The runs whose end is examined start with one of these compositors: none,
\* one and two seats, and an output with its manager and a seat.
LiveInit ==
    /\ Init
    /\ srv.globals \in
          { Advertise(s) :
              s \in { <<>>, <<"wl_seat">>, <<"wl_seat", "wl_seat">>,
                      <<"wl_output", "zxdg_output_manager_v1", "wl_seat">> } }

LiveSpec ==
    /\ LiveInit
    /\ [][Next]_vars
    /\ WF_vars(MainStep)

(***************************************************************************)
(* The collectors on their own: one handler or update is called on a       *)
(* snapshot the registry handler and phase 2 have built, with any index    *)
(* and any wire value.                                                     *)
(***************************************************************************)
\* The globals of a collected snapshot.
MaxCollected == 2

\* The registry handler applied to the announcements of the interfaces.
RECURSIVE Discover(_)
Discover(interfaces) ==
    IF interfaces = <<>>
    THEN [ app_data |-> AppData_new,
           sent |-> <<Request("get_registry", "wl_registry", <<>>, UnitData,
                              "get_registry")>> ]
    ELSE LET n == Len(interfaces)
             earlier == Discover(SubSeq(interfaces, 1, n - 1))
         IN  RegistryEvent(earlier.app_data, earlier.sent, 1, "global",
                           <<n, interfaces[n], AdvertisedVersion(interfaces[n])>>,
                           "roundtrip_globals")

\* The placeholders phase 2 records for the first n pairs.
RECURSIVE WithPlaceholders(_, _)
WithPlaceholders(ad, n) ==
    IF n = 0 THEN ad
    ELSE LET p == Pairs(Len(ad.xdg_output_managers), Len(ad.outputs))[n]
         IN  add_xdg_output(WithPlaceholders(ad, n - 1), p[1], p[2])

Collected(interfaces) ==
    LET ad == Discover(interfaces).app_data
    IN  WithPlaceholders(ad, Len(Pairs(Len(ad.xdg_output_managers), Len(ad.outputs))))

\* The local indices tried: the last one addresses no record.
Indices == 0..MaxCollected

\* The wire values tried: the last of each range is not a value of the enum.
SubpixelValues == 0..6
TransformValues == 0..8
ModeValues == 0..4
CapabilityValues == 0..8

Call(target, data, ev, args) == [target |-> target, data |-> data, ev |-> ev, args |-> args]

CollectorCalls ==
    {Call("wl_seat", UserData("Seat", i, 0), "capabilities", <<c>>) :
        i \in Indices, c \in CapabilityValues}
    \cup {Call("wl_seat", UserData("Seat", i, 0), "name", <<"seat-a">>) : i \in Indices}
    \cup {Call("wl_keyboard", UserData("Seat", i, 0), "repeat_info", <<25, 600>>) :
            i \in Indices}
    \cup {Call("wl_output", UserData("Output", i, 0), "geometry",
               <<10, 20, 340, 190, s, "ACME", "Panel", t>>) :
            i \in Indices, s \in SubpixelValues, t \in TransformValues}
    \cup {Call("wl_output", UserData("Output", i, 0), "mode", <<f, 1920, 1080, 60000>>) :
            i \in Indices, f \in ModeValues}
    \cup {Call("wl_output", UserData("Output", i, 0), "scale", <<2>>) : i \in Indices}
    \cup {Call("wl_output", UserData("Output", i, 0), "name", <<"eDP-1">>) : i \in Indices}
    \cup {Call("wl_output", UserData("Output", i, 0), "description", <<"Panel">>) :
            i \in Indices}
    \* formats: 0 and 1, "!!!!" and "~~~~", XR24 and AR24, codes with a space,
    \* a DEL or a NUL among their bytes, and the largest code below 2^31
    \cup {Call("wl_shm", UserData("Shm", i, 0), "format", <<f>>) :
            i \in Indices,
            f \in { 0, 1, 555819297, 2122219134, 875713112, 875713089, 875713056,
                    540168792, 538982467, 875713151, 2134004312, 872436312,
                    2147483647 }}
    \cup {Call("wp_presentation", UserData("Presentation", i, 0), "clock_id", <<4>>) :
            i \in Indices}
    \cup {Call("treeland_output_manager_v1", UserData("TreelandOutputManager", i, 0),
               "primary_output", <<"eDP-1">>) : i \in Indices}
    \cup {Call("zxdg_output_v1", UserData("XdgOutput", i, j), ev[1], ev[2]) :
            i \in Indices, j \in Indices,
            ev \in { <<"name", <<"eDP-1">> >>, <<"description", <<"Panel">> >>,
                     <<"logical_position", <<10, 20>> >>,
                     <<"logical_size", <<1920, 1080>> >> }}
    \cup {Call("AppData", UserData("XdgOutput", i, j), "add_xdg_output", <<>>) :
            i \in Indices, j \in Indices}
    \cup {Call("AppData", UserData("DrmLeaseDevice", i, 0), "update_drm_lease_device_path",
               <<"/dev/dri/card0">>) : i \in Indices}
    \cup {Call("AppData", UserData("DrmLeaseDevice", i, 0), "add_drm_lease_connector",
               <<"DP-1", "Headset", 7>>) : i \in Indices}
    \* the events no arm of a handler names
    \cup {Call("wl_registry", UnitData, "global_remove", <<name>>) :
            name \in 1..(MaxCollected + 1)}
    \cup {Call("wl_keyboard", UserData("Seat", i, 0), ev, <<1>>) :
            i \in Indices, ev \in {"keymap", "modifiers"}}
    \cup {Call("wl_output", UserData("Output", i, 0), "done", <<>>) : i \in Indices}
    \cup {Call("zxdg_output_v1", UserData("XdgOutput", i, j), "done", <<>>) :
            i \in Indices, j \in Indices}
    \cup {Call("zxdg_output_manager_v1", UserData("XdgOutputManager", i, 0), "event",
               <<1>>) : i \in Indices}
    \* a handled event on a proxy tagged for another handler
    \cup UNION {
            {Call(h[1], UserData(kind, i, 0), h[3], h[4]) :
                kind \in UserDataKinds \ {h[2]}, i \in Indices} :
            h \in { <<"wl_seat", "Seat", "name", <<"seat-a">> >>,
                    <<"wl_keyboard", "Seat", "repeat_info", <<25, 600>> >>,
                    <<"wl_output", "Output", "scale", <<2>> >>,
                    <<"wl_shm", "Shm", "format", <<875713112>> >>,
                    <<"wp_presentation", "Presentation", "clock_id", <<4>> >>,
                    <<"treeland_output_manager_v1", "TreelandOutputManager",
                      "primary_output", <<"eDP-1">> >>,
                    <<"zxdg_output_v1", "XdgOutput", "name", <<"eDP-1">> >> } }

\* The handler or the method of AppData a call names, applied.
ApplyCall(ad, call) ==
    CASE call.target = "wl_registry" ->
            RegistryEvent(ad, sent, 1, call.ev, call.args, pc).app_data
      [] call.target = "zxdg_output_manager_v1" ->
            XdgOutputManagerEvent(ad, call.data, call.ev, call.args)
      [] call.target = "wl_seat" -> SeatEvent(ad, call.data, call.ev, call.args)
      [] call.target = "wl_keyboard" -> KeyboardEvent(ad, call.data, call.ev, call.args)
      [] call.target = "wl_output" -> OutputEvent(ad, call.data, call.ev, call.args)
      [] call.target = "wl_shm" -> ShmEvent(ad, call.data, call.ev, call.args)
      [] call.target = "wp_presentation" ->
            PresentationEvent(ad, call.data, call.ev, call.args)
      [] call.target = "treeland_output_manager_v1" ->
            TreelandEvent(ad, call.data, call.ev, call.args)
      [] call.target = "zxdg_output_v1" ->
            XdgOutputEvent(ad, call.data, call.ev, call.args)
      [] call.ev = "add_xdg_output" -> add_xdg_output(ad, call.data.i, call.data.j)
      [] call.ev = "update_drm_lease_device_path" ->
            update_drm_lease_device_path(ad, call.data.i, call.args[1])
      [] call.ev = "add_drm_lease_connector" ->
            add_drm_lease_connector(ad, call.data.i, call.args[1], call.args[2],
                                    call.args[3])

CollectInit ==
    /\ pc = "collect"
    /\ rt = [state |-> "idle", callback |-> 0]
    /\ main = MainLocals
    /\ \E interfaces \in SeqsUpTo(Interfaces, MaxCollected) :
          /\ app_data = Collected(interfaces)
          /\ sent = Discover(interfaces).sent
          /\ srv = [ globals |-> Advertise(interfaces), handled |-> 1,
                     volunteered |-> FALSE ]
    /\ events = <<>>
    /\ hist = NoHistory
    /\ cli = [ json_output |-> FALSE, full_output |-> TRUE, sort_output |-> FALSE,
               protocol_filter |-> None ]
    /\ out = [stdout |-> <<>>, exit_code |-> None]

CollectorCall ==
    /\ pc = "collect"
    /\ hist.applied = None
    /\ \E call \in CollectorCalls :
          /\ app_data' = ApplyCall(app_data, call)
          /\ sent' = IF call.target = "wl_registry"
                     THEN RegistryEvent(app_data, sent, 1, call.ev, call.args, pc).sent
                     ELSE sent
          /\ hist' = [hist EXCEPT !.applied = Some(call)]
    /\ UNCHANGED <<pc, rt, main, srv, events, cli, out>>

CollectNext == CollectorCall

CollectSpec == CollectInit /\ [][CollectNext]_vars

(***************************************************************************)
(* The renderers on their own: a snapshot of any globals, the compositor   *)
(* interface wl_compositor among them, is rendered with any options, and   *)
(* then once more with the same options.                                   *)
(***************************************************************************)
\* Every value of Cli, -p naming any of the interfaces.
RenderOptions ==
    [ json_output : BOOLEAN, full_output : BOOLEAN, sort_output : BOOLEAN,
      protocol_filter : {None} \cup {Some(p) : p \in Interfaces} ]

RenderInit ==
    /\ pc = "output"
    /\ rt = [state |-> "idle", callback |-> 0]
    /\ main = MainLocals
    /\ \E interfaces \in SeqsUpTo(Interfaces, MaxCollected) :
          /\ app_data = Collected(interfaces)
          /\ sent = Discover(interfaces).sent
          /\ srv = [ globals |-> Advertise(interfaces), handled |-> 1,
                     volunteered |-> FALSE ]
    /\ events = <<>>
    /\ hist = NoHistory
    /\ cli = [ json_output |-> FALSE, full_output |-> TRUE, sort_output |-> FALSE,
               protocol_filter |-> None ]
    /\ out = [stdout |-> <<>>, exit_code |-> None]

\* A faulty variant: the renderer takes the globals out of the snapshot.
RenderSnapshotTaking ==
    /\ pc = "output"
    /\ \E options \in RenderOptions, timestamp_ms \in Timestamps :
          /\ cli' = options
          /\ out' = [out EXCEPT !.stdout = Render(app_data, options, timestamp_ms)]
    /\ app_data' = [app_data EXCEPT !.globals = <<>>]
    /\ pc' = "rendered"
    /\ UNCHANGED <<rt, main, sent, srv, events, hist>>

\* The renderers borrow the snapshot: &AppData.
RenderSnapshot ==
    /\ pc = "output"
    /\ \E options \in RenderOptions, timestamp_ms \in Timestamps :
          /\ cli' = options
          /\ out' = [out EXCEPT !.stdout = Render(app_data, options, timestamp_ms)]
    /\ pc' = "rendered"
    /\ UNCHANGED <<rt, main, app_data, sent, srv, events, hist>>

\* The same renderer called again with the same options, at any later time.
RenderAgain ==
    /\ pc = "rendered"
    /\ \E timestamp_ms \in Timestamps :
          hist' = [hist EXCEPT !.again = Some(Render(app_data, cli, timestamp_ms))]
    /\ pc' = "exit"
    /\ UNCHANGED <<rt, main, app_data, sent, srv, events, cli, out>>

RenderNext ==
    \/ RenderSnapshot
    \/ RenderAgain

RenderSpec == RenderInit /\ [][RenderNext]_vars

(***************************************************************************)
(* The handlers under the events of any compositor: globals of any of the  *)
(* interfaces are announced, and the proxies bound for them receive events *)
(* in any order and any number of times.  hist.log is the sequence of the  *)
(* events dispatched to the bound proxies.                                 *)
(***************************************************************************)
\* The events dispatched to bound proxies in one run.
MaxEvents == 2

\* The events a proxy of the interface can get as the n-th event of the run;
\* a name, a scale, a position and a clock differ from one event to the next.
EventsFor(iface, n) ==
    CASE iface = "wl_seat" ->
            {<<"capabilities", <<c>> >> : c \in {1, 2, 3}}
            \cup {<<"name", <<"seat-" \o ToString(n)>> >>}
      [] iface = "wl_output" ->
            { <<"geometry", <<10 * n, 20 * n, 340, 190, 1, "ACME", "Panel", 0>> >>,
              <<"scale", <<n + 1>> >>,
              <<"name", <<"DP-" \o ToString(n)>> >> }
            \cup {<<"mode", <<f, 1920, 1080, 60000>> >> : f \in {1, 2}}
      [] iface = "wl_shm" -> {<<"format", <<f>> >> : f \in {0, 875713112}}
      [] iface = "wp_presentation" -> {<<"clock_id", <<n>> >>}
      [] iface = "treeland_output_manager_v1" ->
            {<<"primary_output", <<"DP-" \o ToString(n)>> >>}
      [] OTHER -> {}

EventInit ==
    /\ pc = "roundtrip_globals"
    /\ rt = [state |-> "waiting", callback |-> 0]
    /\ main = MainLocals
    /\ app_data = AppData_new
    /\ sent = <<Request("get_registry", "wl_registry", <<>>, UnitData, "get_registry")>>
    /\ srv = [globals |-> <<>>, handled |-> 1, volunteered |-> FALSE]
    /\ events = <<>>
    /\ hist = NoHistory
    /\ cli = [ json_output |-> FALSE, full_output |-> TRUE, sort_output |-> FALSE,
               protocol_filter |-> None ]
    /\ out = [stdout |-> <<>>, exit_code |-> None]

\* The compositor announces one more global and the registry handler runs.
Announce ==
    /\ Len(srv.globals) < MaxCollected
    /\ \E interface \in Interfaces :
          LET global == [ name |-> Len(srv.globals) + 1, interface |-> interface,
                          version |-> AdvertisedVersion(interface) ]
              got == HandleEvent(app_data, sent,
                                 Event(1, "global",
                                       <<global.name, global.interface, global.version>>, 0),
                                 pc)
          IN  /\ srv' = [srv EXCEPT !.globals = Append(@, global)]
              /\ app_data' = got.app_data
              /\ sent' = got.sent
    /\ UNCHANGED <<pc, rt, main, events, hist, cli, out>>

\* A bound proxy gets an event and its handler runs.
Deliver ==
    /\ Len(hist.log) < MaxEvents
    /\ \E obj \in 2..Len(sent) :
          \E e \in EventsFor(sent[obj].iface, Len(hist.log) + 1) :
              LET event == Event(obj, e[1], e[2], 0)
                  got == HandleEvent(app_data, sent, event, pc)
              IN  /\ app_data' = got.app_data
                  /\ sent' = got.sent
                  /\ hist' = [hist EXCEPT !.log = Append(@, event)]
    /\ UNCHANGED <<pc, rt, main, srv, events, cli, out>>

EventNext ==
    \/ Announce
    \/ Deliver

EventSpec == EventInit /\ [][EventNext]_vars

(***************************************************************************)
(* Properties of the run.                                                  *)
(***************************************************************************)
Rendering == pc \in {"output", "exit"}

\* The events the compositor wrote for request k have all been dispatched.
Answered(k) ==
    /\ k <= srv.handled
    /\ \A n \in 1..Len(events) : events[n].cause # k

\* The seat record a keyboard belongs to: the record of the global that the
\* seat it was requested from is bound to.
SeatOfKeyboard(keyboard) ==
    LET name == GlobalOf(sent, sent[keyboard].args[1])
    IN  CHOOSE i \in 1..Len(app_data.seats) : app_data.seats[i].name = name

HasRepeat(seat) ==
    IsSome(seat.keyboard_repeat_rate) \/ IsSome(seat.keyboard_repeat_delay)

RepeatAbsentUntilProcessed ==
    \A i \in 1..Len(app_data.seats) :
        HasRepeat(app_data.seats[i]) =>
            \E keyboard \in hist.repeat_from : SeatOfKeyboard(keyboard) = i

RepeatChangesOwnSeatOnly ==
    \A j \in 1..Len(app_data.seats) :
        app_data'.seats[j] # app_data.seats[j]
        /\ ( app_data'.seats[j].keyboard_repeat_rate # app_data.seats[j].keyboard_repeat_rate
             \/ app_data'.seats[j].keyboard_repeat_delay
                    # app_data.seats[j].keyboard_repeat_delay )
        => /\ events # <<>>
           /\ events' = Tail(events)
           /\ Head(events).ev = "repeat_info"
           /\ sent[Head(events).obj].iface = "wl_keyboard"
           /\ SeatOfKeyboard(Head(events).obj) = j

\* C1: a seat's repeat rate and delay are absent unless a repeat_info event of
\* the keyboard bound for that very seat has been dispatched, and the repeat
\* fields of a seat change only when a repeat_info event of its own keyboard
\* is dispatched: an event of the keyboard of seat i never changes seat j.
C1_RepeatOfOwnKeyboard ==
    [](RepeatAbsentUntilProcessed) /\ [][RepeatChangesOwnSeatOnly]_vars

\* The first seat has its repeat fields from its keyboard while the second
\* seat, whose keyboard has sent nothing yet, has none.
C1_Witness ==
    /\ Len(app_data.seats) >= 2
    /\ app_data.seats[1].keyboard_repeat_rate = Some(25)
    /\ ~HasRepeat(app_data.seats[2])
    /\ Cardinality(hist.repeat_from) = 1

\* Phase 2 is over: every placeholder of the pairs has been recorded.
PastPhase2 ==
    /\ IsSome(hist.known)
    /\ pc \notin {"drain_objects", "bind_xdg"}
    /\ main.info = Len(Infos(main.xdg_output_infos))

\* C2: from the end of phase 2 on, for every manager M and every output O
\* that were known when the phase-1 barrier completed, the list of M holds
\* exactly one LogicalOutputRecord with output_id = O's index, it stands at
\* the position O's index, and one get_xdg_output request pairs the proxies
\* of M and O.
C2_OneLogicalOutputPerPair ==
    PastPhase2 =>
        \A m \in 1..hist.known[1].managers, o \in 0..(hist.known[1].outputs - 1) :
            LET records == app_data.xdg_output_managers[m].outputs
            IN  /\ Cardinality({k \in 1..Len(records) : records[k].output_id = o}) = 1
                /\ Len(records) > o
                /\ records[o + 1].output_id = o
                /\ Cardinality({k \in 1..Len(sent) :
                        /\ sent[k].req = "get_xdg_output"
                        /\ sent[sent[k].args[1]].data = UserData("XdgOutputManager", m - 1, 0)
                        /\ sent[sent[k].args[2]].data = UserData("Output", o, 0)}) = 1

C2_Witness ==
    /\ pc = "exit"
    /\ hist.known[1].managers >= 1
    /\ hist.known[1].outputs >= 2
    /\ Len(app_data.xdg_output_managers[1].outputs) = 2

\* The steps of main() between the connection and the rendering.
RECURSIVE SeatSteps(_, _)
SeatSteps(i, seats) ==
    IF i >= seats THEN <<>>
    ELSE << <<"get_keyboard", i>>, <<"roundtrip">> >> \o SeatSteps(i + 1, seats)

XdgSteps(managers, outputs) ==
    [k \in 1..(managers * outputs) |->
        <<"get_xdg_output", (k - 1) \div outputs, (k - 1) % outputs>>]

ExpectedSteps(known) ==
    << <<"roundtrip">> >>
    \o XdgSteps(known.managers, known.outputs)
    \o SeatSteps(0, known.seats)
    \o [k \in 1..5 |-> <<"roundtrip">>]

\* C3: when the rendering starts, main() has done, in this order, the phase-1
\* barrier, the get_xdg_output request of every (manager, output) pair, for
\* every seat its get_keyboard request followed by a barrier, and five drain
\* barriers, and nothing else.
C3_RenderAfterAllPhases ==
    Rendering => IsSome(hist.known) /\ hist.log = ExpectedSteps(hist.known[1])

C3_Witness ==
    /\ pc = "output"
    /\ hist.known[1].seats >= 1
    /\ hist.known[1].managers >= 1
    /\ hist.known[1].outputs >= 1

IsGetKeyboard(step) == step[1] = "get_keyboard"

\* C4: phase 3 takes the seats in index order (0, 1, ..), each get_keyboard
\* request is made on the proxy of the seat of that index, and a barrier
\* completes between any two get_keyboard requests.
C4_SeatBySeatBarrier ==
    /\ \A a \in 1..Len(hist.log) :
          IsGetKeyboard(hist.log[a]) =>
              /\ hist.log[a][2] =
                    Cardinality({b \in 1..(a - 1) : IsGetKeyboard(hist.log[b])})
              /\ \A b \in (a + 1)..Len(hist.log) :
                    IsGetKeyboard(hist.log[b]) =>
                        \E c \in (a + 1)..(b - 1) : hist.log[c] = <<"roundtrip">>
    /\ \A k \in 1..Len(sent) :
          sent[k].req = "get_keyboard" =>
              /\ sent[sent[k].args[1]].iface = "wl_seat"
              /\ sent[sent[k].args[1]].data = UserData("Seat", sent[k].data.i, 0)
              /\ sent[k].data.i =
                    Cardinality({n \in 1..(k - 1) : sent[n].req = "get_keyboard"})

C4_Witness ==
    /\ Cardinality({a \in 1..Len(hist.log) : IsGetKeyboard(hist.log[a])}) >= 2
    /\ pc = "roundtrip_seat"
    /\ rt.state = "done"

\* What the events answering the request k leave in the records.
Applied(k) ==
    LET r == sent[k]
    IN  CASE r.req = "bind" /\ r.iface = "wl_seat" ->
                app_data.seats[r.data.i + 1].seat_name = "default"
          [] r.req = "bind" /\ r.iface = "wl_output" ->
                /\ Len(app_data.outputs[r.data.i + 1].modes) = 1
                /\ app_data.outputs[r.data.i + 1].output_name
                        = "eDP-" \o ToString(r.args[1])
          [] r.req = "bind" /\ r.iface = "wl_shm" ->
                Len(app_data.shm_info[r.data.i + 1].formats) = 2
          [] r.req = "get_xdg_output" ->
                /\ Len(app_data.xdg_output_managers) > r.data.i
                /\ Len(app_data.xdg_output_managers[r.data.i + 1].outputs) > r.data.j
                /\ app_data.xdg_output_managers[r.data.i + 1].outputs[r.data.j + 1]
                        .logical_width = 1920
          [] r.req = "get_keyboard" ->
                HasRepeat(app_data.seats[r.data.i + 1])
          [] OTHER -> TRUE

\* The binds of phases 1, 2 and 3.
PhaseBind(r) ==
    \/ r.req = "bind" /\ r.at = "roundtrip_globals"
    \/ r.req = "get_xdg_output"
    \/ r.req = "get_keyboard"

\* C5: with a compositor that answers in order, when the rendering starts
\* every event answering a first-order bind of phase 1, a get_xdg_output of
\* phase 2 or a get_keyboard of phase 3 has been dispatched and is in the
\* records, whatever the number of seats.
C5_BindsAnsweredBeforeRender ==
    Rendering =>
        \A k \in 1..Len(sent) : PhaseBind(sent[k]) => Answered(k) /\ Applied(k)

C5_Witness ==
    /\ pc = "exit"
    /\ \E k \in 1..Len(sent) : sent[k].req = "get_keyboard"
    /\ \E k \in 1..Len(sent) : sent[k].req = "get_xdg_output"
    /\ \E k \in 1..Len(sent) : sent[k].req = "bind" /\ sent[k].iface = "wl_seat"

AbortedState ==
    IsSome(hist.error) =>
        /\ pc = "panicked"
        /\ rt.state = "idle"
        /\ out.stdout = <<>>
        /\ IsSome(out.exit_code)
        /\ out.exit_code[1] # 0

AbortedStep ==
    IsSome(hist'.error) =>
        /\ sent' = sent
        /\ hist'.log = hist.log
        /\ app_data' = app_data
        /\ out'.stdout = <<>>
        /\ IsSome(hist.error) => pc' = pc /\ out' = out

\* C6: a failure of the connection or a transport error of a barrier ends the
\* run in the step it happens: the process is gone with a nonzero status and
\* nothing printed, and from the failure on no request is written, no barrier
\* is made (so nothing is tried again) and no record changes.
C6_ErrorAborts ==
    [](AbortedState) /\ [][AbortedStep]_vars

C6_Witness ==
    /\ hist.error = Some("roundtrip")
    /\ IsSome(hist.known)
    /\ \E k \in 1..Len(sent) : sent[k].req = "get_keyboard"

\* C7: from the start of the rendering on no step changes a record of
\* AppData: no barrier is made, no event is dispatched, and the rendering
\* itself, in each of its four forms, leaves the records as they were.
C7_FrozenWhileRendering ==
    [][Rendering => /\ app_data' = app_data
                    /\ sent' = sent
                    /\ rt' = rt
                    /\ events' = events]_vars

C7_Witness ==
    /\ pc = "exit"
    /\ cli.sort_output
    /\ cli.protocol_filter = Some("wl_seat")
    /\ Len(app_data.globals) >= 2
    /\ app_data.globals[1].interface = "zxdg_output_manager_v1"
    /\ out.stdout # <<>>

\* a < b in the lexicographic order of byte strings.
LexLess(a, b) ==
    \E k \in 1..(Len(a) + 1) :
        /\ k <= Len(b)
        /\ \A n \in 1..(k - 1) : a[n] = b[n]
        /\ k > Len(a) \/ a[k] < b[k]

\* The positions of the announced globals that the filter lets through.
Matching(filter) ==
    {k \in 1..Len(app_data.globals) :
        filter = None \/ app_data.globals[k].interface = filter[1]}

\* The place of global k among the shown ones.
Place(k, sort, filter) ==
    LET g == app_data.globals
        ahead(n) == IF sort
                    THEN \/ LexLess(Utf8(g[n].interface), Utf8(g[k].interface))
                         \/ g[n].interface = g[k].interface /\ n < k
                    ELSE n < k
    IN  Cardinality({n \in Matching(filter) : ahead(n)}) + 1

ExpectedShown(sort, filter) ==
    [p \in 1..Cardinality(Matching(filter)) |->
        app_data.globals[CHOOSE k \in Matching(filter) : Place(k, sort, filter) = p]]

AnnouncementOrder ==
    /\ Len(app_data.globals) <= Len(srv.globals)
    /\ app_data.globals = SubSeq(srv.globals, 1, Len(app_data.globals))

RenderedInExpectedOrder ==
    LET expected == ExpectedShown(cli.sort_output, cli.protocol_filter)
        absent == IsSome(cli.protocol_filter) /\ expected = <<>>
    IN  IF cli.json_output
        THEN out.stdout[1].globals =
                [p \in 1..Len(expected) |->
                    [interface |-> expected[p].interface, version |-> expected[p].version]]
        ELSE IF absent
        THEN out.stdout = <<NotSupportedLine(cli.protocol_filter[1])>>
        ELSE IF cli.full_output
        THEN out.stdout = <<HeaderLine>>
                \o EachFull(app_data, expected, cli.sort_output, cli.protocol_filter)
        ELSE out.stdout = <<HeaderLine>>
                \o EachBasic(expected, cli.sort_output, cli.protocol_filter)

\* C8: the globals list is in the order of the announcements; a rendering
\* without --sort shows the matching globals in that order, and one with
\* --sort shows them in the lexicographic order of the interface names,
\* globals of the same interface in the order of their announcements.
C8_GlobalsOrder ==
    /\ AnnouncementOrder
    /\ pc = "exit" => RenderedInExpectedOrder

C8_Witness ==
    /\ pc = "exit"
    /\ cli.sort_output /\ ~cli.json_output /\ cli.full_output
    /\ cli.protocol_filter = None
    /\ Len(app_data.globals) = 3
    /\ app_data.globals[1].interface = "wl_seat"
    /\ app_data.globals[2].interface = "wl_output"
    /\ app_data.globals[3].interface = "wl_seat"
    /\ app_data.seats[2].keyboard_repeat_rate = Some(27)

\* C9: the capabilities of a seat are the tokens of all the bits of the
\* capabilities event: the compositor sends pointer+keyboard (3) to every
\* seat, so a seat whose events are dispatched has both tokens and is
\* rendered with the line "capabilities: pointer keyboard".
C9_CapabilitiesOfEveryBit ==
    \A k \in 1..Len(sent) :
        sent[k].req = "bind" /\ sent[k].iface = "wl_seat" /\ Answered(k) =>
            LET seat == app_data.seats[sent[k].data.i + 1]
            IN  /\ Range(seat.capabilities) = {"pointer", "keyboard"}
                /\ "        capabilities: pointer keyboard"
                        \in Range(SeatLines(app_data, [name |-> seat.name]))

\* C10: the flags of a mode hold "current" and "preferred" exactly as the
\* bits of the mode event say: the compositor sends current+preferred (3)
\* with the mode of every output, so an output whose events are dispatched
\* has a mode with both tokens, rendered as "flags: current preferred".
C10_ModeFlagsOfEveryBit ==
    \A k \in 1..Len(sent) :
        sent[k].req = "bind" /\ sent[k].iface = "wl_output" /\ Answered(k) =>
            LET modes == app_data.outputs[sent[k].data.i + 1].modes
            IN  /\ Len(modes) = 1
                /\ Range(modes[1].flags) = {"current", "preferred"}
                /\ ModeLines(modes[1])[3] = "                flags: current preferred"

(***************************************************************************)
(* Properties of the collectors.                                           *)
(***************************************************************************)
\* The call addresses a record of the snapshot ad.
Addressed(ad, call) ==
    LET i == call.data.i
        j == call.data.j
    IN  CASE call.target \in {"wl_seat", "wl_keyboard"} -> i < Len(ad.seats)
          [] call.target = "wl_output" -> i < Len(ad.outputs)
          [] call.target = "wl_shm" -> i < Len(ad.shm_info)
          [] call.target = "wp_presentation" -> i < Len(ad.presentation_info)
          [] call.target = "treeland_output_manager_v1" ->
                i < Len(ad.treeland_output_managers)
          [] call.target = "zxdg_output_v1" ->
                /\ i < Len(ad.xdg_output_managers)
                /\ j < Len(ad.xdg_output_managers[i + 1].outputs)
          [] call.ev = "add_xdg_output" -> i < Len(ad.xdg_output_managers)
          [] OTHER -> i < Len(ad.drm_lease_devices)

\* C11: a handler or an update called with a local index (or a pair of a
\* manager index and an output index) that addresses no record changes
\* nothing of AppData and raises nothing: the process is where it was and
\* has printed nothing, whatever the protocol and the event.
C11_MissingIndexDiscarded ==
    [][ hist.applied = None /\ IsSome(hist'.applied)
        /\ ~Addressed(app_data, hist'.applied[1])
        => app_data' = app_data /\ pc' = pc /\ out' = out ]_vars

\* An event of a logical output whose manager exists and whose output index
\* is past the manager's list has been handled.
C11_Witness ==
    /\ IsSome(hist.applied)
    /\ hist.applied[1].target = "zxdg_output_v1"
    /\ hist.applied[1].ev = "logical_size"
    /\ hist.applied[1].data.i = 0
    /\ Len(app_data.xdg_output_managers) = 1
    /\ Len(app_data.xdg_output_managers[1].outputs) = 1
    /\ hist.applied[1].data.j = 1

SubpixelNames ==
    <<"unknown", "none", "horizontal_rgb", "horizontal_bgr", "vertical_rgb", "vertical_bgr">>

TransformNames ==
    <<"normal", "90", "180", "270", "flipped", "flipped-90", "flipped-180", "flipped-270">>

\* C12: after a geometry event the subpixel token of the output is the name
\* of the wire value, "unknown" for a value outside 0..5, and its transform
\* token the name of the wire value, "normal" for a value outside 0..7; a
\* mode event whose flags are no value of the bitfield appends a mode without
\* flags, a capabilities event whose value is none of the bitfield leaves the
\* seat without capabilities, and none of them is an error.
C12_EnumFallbacks ==
    IsSome(hist.applied) /\ Addressed(app_data, hist.applied[1]) =>
        LET call == hist.applied[1]
            i == call.data.i + 1
        IN  /\ pc = "collect" /\ out.exit_code = None
            /\ call.target = "wl_output" /\ call.ev = "geometry" =>
                  /\ app_data.outputs[i].subpixel_orientation =
                        IF call.args[5] \in 0..5 THEN SubpixelNames[call.args[5] + 1]
                        ELSE "unknown"
                  /\ app_data.outputs[i].output_transform =
                        IF call.args[8] \in 0..7 THEN TransformNames[call.args[8] + 1]
                        ELSE "normal"
            /\ call.target = "wl_output" /\ call.ev = "mode" /\ call.args[1] \notin 0..3 =>
                  /\ Len(app_data.outputs[i].modes) = 1
                  /\ app_data.outputs[i].modes[1].flags = <<>>
            /\ call.target = "wl_seat" /\ call.ev = "capabilities"
               /\ call.args[1] \notin 0..7 =>
                  app_data.seats[i].capabilities = <<>>

C12_Witness ==
    /\ IsSome(hist.applied)
    /\ hist.applied[1].ev = "geometry"
    /\ hist.applied[1].args[5] = 6
    /\ hist.applied[1].args[8] = 8
    /\ Len(app_data.outputs) = 2
    /\ hist.applied[1].data.i = 1
    /\ app_data.outputs[2].subpixel_orientation = "unknown"
    /\ app_data.outputs[2].output_transform = "normal"

(***************************************************************************)
(* Properties of the renderers.                                            *)
(***************************************************************************)
Rendered == pc \in {"rendered", "exit"}

\* -p names an interface that none of the globals has.
FilterMatchesNone ==
    /\ IsSome(cli.protocol_filter)
    /\ \A k \in 1..Len(app_data.globals) :
          app_data.globals[k].interface # cli.protocol_filter[1]

\* C13: when the run ends and -p named an interface that no global has, the
\* text renderers, full or basic, have printed the one line "Protocol not
\* supported: <name>" and nothing else, the JSON renderers one document whose
\* globals list is empty, and the exit code is 0.
C13_UnknownFilterNotAnError ==
    pc = "exit" /\ FilterMatchesNone =>
        /\ out.exit_code = Some(0)
        /\ IF cli.json_output
           THEN Len(out.stdout) = 1 /\ out.stdout[1].globals = <<>>
           ELSE out.stdout = <<"Protocol not supported: " \o cli.protocol_filter[1]>>

\* A compositor with an output and a shm global, -p wl_seat, basic text.
C13_Witness ==
    /\ pc = "exit"
    /\ FilterMatchesNone
    /\ cli.protocol_filter = Some("wl_seat")
    /\ ~cli.json_output /\ ~cli.full_output
    /\ Len(app_data.globals) = 2
    /\ out.stdout = <<"Protocol not supported: wl_seat">>

\* The globals a rendering shows: those the filter lets through, in the order
\* of C8.
Shown == ExpectedShown(cli.sort_output, cli.protocol_filter)

\* The snapshot with every numeric name replaced by another one, the same
\* way in the globals list and in the records.
Renamed(records) == [k \in 1..Len(records) |-> [records[k] EXCEPT !.name = @ + 100]]

RenameIds(ad) ==
    [ad EXCEPT !.globals = Renamed(@), !.seats = Renamed(@), !.outputs = Renamed(@),
               !.shm_info = Renamed(@), !.drm_lease_devices = Renamed(@),
               !.presentation_info = Renamed(@),
               !.treeland_output_managers = Renamed(@),
               !.xdg_output_managers = Renamed(@)]

\* What is printed does not depend on the numeric names.
IdFree == out.stdout = Render(RenameIds(app_data), cli, 0)

InterfaceAndVersion(g) ==
    "interface: " \o PadRight(g.interface, 45) \o " version: " \o ToString(g.version)

NameInterfaceAndVersion(g) ==
    "name: " \o PadRight(ToString(g.name), 4) \o " " \o InterfaceAndVersion(g)

NoticeExpected ==
    IsSome(cli.protocol_filter) /\ cli.protocol_filter[1] \notin DetailInterfaces

\* The statement of C14 as the specification makes it: a basic rendering has,
\* for each global shown, its interface name and its version and nothing
\* else: one entry or one line each, none of which depends on the numeric
\* name of the global.
C14_BasicOnlyInterfaceAndVersion ==
    Rendered /\ ~cli.full_output /\ ~FilterMatchesNone =>
        IF cli.json_output
        THEN /\ Len(out.stdout[1].globals) = Len(Shown)
             /\ \A k \in 1..Len(Shown) :
                   out.stdout[1].globals[k] =
                       [interface |-> Shown[k].interface, version |-> Shown[k].version]
        ELSE /\ Len(out.stdout) = 1 + Len(Shown)
             /\ IdFree

\* C14: a basic rendering shows no per-protocol detail.  In JSON each global
\* shown is an entry of exactly its interface name and its version.  In text
\* each global shown has one line with its interface name and its version,
\* which starts with the numeric name exactly when --sort is not given, and
\* the line is followed by the "does not implement details" notice exactly
\* when -p names an interface without a detail renderer; nothing else is
\* printed after the heading.
C14_BasicLines ==
    Rendered /\ ~cli.full_output /\ ~FilterMatchesNone =>
        IF cli.json_output
        THEN /\ Len(out.stdout[1].globals) = Len(Shown)
             /\ \A k \in 1..Len(Shown) :
                   out.stdout[1].globals[k] =
                       [interface |-> Shown[k].interface, version |-> Shown[k].version]
        ELSE LET per == IF NoticeExpected THEN 2 ELSE 1
             IN  /\ Len(out.stdout) = 1 + per * Len(Shown)
                 /\ \A k \in 1..Len(Shown) :
                       /\ out.stdout[1 + per * (k - 1) + 1] =
                             IF cli.sort_output THEN InterfaceAndVersion(Shown[k])
                             ELSE NameInterfaceAndVersion(Shown[k])
                       /\ NoticeExpected =>
                             out.stdout[1 + per * k] = NoDetailsLine

\* Two wl_compositor globals and -p wl_compositor, basic text without --sort:
\* each line shows the numeric name and is followed by the notice.
C14_Witness ==
    /\ Rendered
    /\ ~cli.full_output /\ ~cli.json_output /\ ~cli.sort_output
    /\ cli.protocol_filter = Some("wl_compositor")
    /\ Len(Shown) = 2
    /\ Len(out.stdout) = 5

\* C15: in a text rendering without --sort the line of every global shown
\* starts with its numeric name; with --sort the line of every global shown
\* has the interface name and the version only, and nothing that is printed
\* depends on a numeric name.
C15_NumericNameUnlessSorted ==
    Rendered /\ ~cli.json_output /\ ~FilterMatchesNone =>
        IF cli.sort_output
        THEN /\ \A k \in 1..Len(Shown) :
                   InterfaceAndVersion(Shown[k]) \in Range(out.stdout)
             /\ IdFree
        ELSE /\ \A k \in 1..Len(Shown) :
                   NameInterfaceAndVersion(Shown[k]) \in Range(out.stdout)
             /\ Shown # <<>> => ~IdFree

\* A full text rendering with --sort of a snapshot with a seat and an
\* output, whose records are found by the numeric names.
C15_Witness ==
    /\ Rendered
    /\ ~cli.json_output /\ cli.full_output /\ cli.sort_output
    /\ cli.protocol_filter = None
    /\ Len(app_data.globals) = 2
    /\ app_data.globals[1].interface = "wl_seat"
    /\ app_data.globals[2].interface = "wl_output"
    /\ Len(out.stdout) > 3

\* C16: in a full text rendering with -p naming an interface that a global
\* has and that has no detail renderer, the line of every global shown is
\* followed by the "does not implement details" notice and nothing else is
\* printed after the heading; with -p naming one of the seven interfaces
\* with a detail renderer the notice is not printed at all.
C16_NoticeWithoutDetailRenderer ==
    Rendered /\ ~cli.json_output /\ cli.full_output
    /\ IsSome(cli.protocol_filter) /\ ~FilterMatchesNone =>
        IF cli.protocol_filter[1] \in DetailInterfaces
        THEN NoDetailsLine \notin Range(out.stdout)
        ELSE /\ Len(out.stdout) = 1 + 2 * Len(Shown)
             /\ \A k \in 1..Len(Shown) :
                   /\ out.stdout[2 * k] =
                         IF cli.sort_output THEN InterfaceAndVersion(Shown[k])
                         ELSE NameInterfaceAndVersion(Shown[k])
                   /\ out.stdout[2 * k + 1] = NoDetailsLine

\* A seat and a wl_compositor global, -p wl_compositor, full text.
C16_Witness ==
    /\ Rendered
    /\ ~cli.json_output /\ cli.full_output
    /\ cli.protocol_filter = Some("wl_compositor")
    /\ Len(app_data.globals) = 2
    /\ app_data.globals[1].interface = "wl_seat"
    /\ app_data.globals[2].interface = "wl_compositor"
    /\ Len(out.stdout) = 3
    /\ out.stdout[3] = NoDetailsLine

\* The record lists of the snapshot by the name of their field in the JSON
\* document, with the interface each belongs to.
ArrayFields ==
    { <<"seats", "wl_seat">>, <<"outputs", "wl_output">>, <<"shmInfo", "wl_shm">>,
      <<"drmLeaseDevices", "wp_drm_lease_device_v1">>,
      <<"presentationInfo", "wp_presentation">>,
      <<"treelandOutputManagers", "treeland_output_manager_v1">>,
      <<"xdgOutputManagers", "zxdg_output_manager_v1">> }

\* The records of the snapshot for the interface, as the document shows them.
RecordsOf(interface) ==
    CASE interface = "wl_seat" ->
            [k \in 1..Len(app_data.seats) |-> JsonSeat(app_data.seats[k])]
      [] interface = "wl_output" ->
            [k \in 1..Len(app_data.outputs) |-> JsonOutputInfo(app_data.outputs[k])]
      [] interface = "wl_shm" ->
            [k \in 1..Len(app_data.shm_info) |-> JsonShm(app_data.shm_info[k])]
      [] interface = "wp_drm_lease_device_v1" ->
            [k \in 1..Len(app_data.drm_lease_devices) |->
                JsonDrmLeaseDevice(app_data.drm_lease_devices[k])]
      [] interface = "wp_presentation" ->
            [k \in 1..Len(app_data.presentation_info) |->
                JsonPresentation(app_data.presentation_info[k])]
      [] interface = "treeland_output_manager_v1" ->
            [k \in 1..Len(app_data.treeland_output_managers) |->
                JsonTreeland(app_data.treeland_output_managers[k])]
      [] interface = "zxdg_output_manager_v1" ->
            [k \in 1..Len(app_data.xdg_output_managers) |->
                JsonXdgManager(app_data.xdg_output_managers[k])]

\* C17: the full JSON document has the fields generationTimestamp, globals
\* and the seven per-protocol arrays, whatever the options and the snapshot.
\* With -p P its globals are the globals of the snapshot whose interface is
\* P, the array of P has every record of that kind and the other arrays are
\* empty; without -p every array has every record of its kind.
C17_FullJsonArrays ==
    Rendered /\ cli.json_output /\ cli.full_output =>
        LET doc == out.stdout[1]
        IN  /\ Len(out.stdout) = 1
            /\ DOMAIN doc = {"generationTimestamp", "globals"}
                                \cup {f[1] : f \in ArrayFields}
            /\ Len(doc.globals) = Len(Shown)
            /\ \A k \in 1..Len(Shown) :
                  doc.globals[k] =
                      [interface |-> Shown[k].interface, version |-> Shown[k].version]
            /\ \A f \in ArrayFields :
                  doc[f[1]] = IF cli.protocol_filter \in {None, Some(f[2])}
                              THEN RecordsOf(f[2]) ELSE <<>>

\* A seat and an output, -p wl_output: one output record, no seat record.
C17_Witness ==
    /\ Rendered
    /\ cli.json_output /\ cli.full_output
    /\ cli.protocol_filter = Some("wl_output")
    /\ Len(app_data.seats) = 1
    /\ Len(app_data.outputs) = 1
    /\ Len(out.stdout[1].outputs) = 1
    /\ out.stdout[1].seats = <<>>
    /\ Len(out.stdout[1].globals) = 1

\* C18: the basic JSON document has the two fields generationTimestamp and
\* globals and nothing else, and every entry of globals has the two fields
\* interface and version and nothing else, whatever the snapshot holds.
C18_BasicJsonFields ==
    Rendered /\ cli.json_output /\ ~cli.full_output =>
        /\ Len(out.stdout) = 1
        /\ DOMAIN out.stdout[1] = {"generationTimestamp", "globals"}
        /\ \A k \in 1..Len(out.stdout[1].globals) :
              DOMAIN out.stdout[1].globals[k] = {"interface", "version"}

\* A snapshot with a seat record and an output record, rendered without -p.
C18_Witness ==
    /\ Rendered
    /\ cli.json_output /\ ~cli.full_output
    /\ cli.protocol_filter = None
    /\ Len(app_data.seats) = 1
    /\ Len(app_data.outputs) = 1
    /\ Len(out.stdout[1].globals) = 2

\* What was printed, the generation timestamp of a JSON document set aside.
Unstamped(printed) ==
    IF cli.json_output
    THEN [k \in 1..Len(printed) |-> [printed[k] EXCEPT !.generationTimestamp = 0]]
    ELSE printed

EmptyRendering ==
    IF cli.json_output
    THEN IF cli.full_output
         THEN << [ generationTimestamp |-> 0, globals |-> <<>>, seats |-> <<>>,
                   outputs |-> <<>>, shmInfo |-> <<>>, drmLeaseDevices |-> <<>>,
                   presentationInfo |-> <<>>, treelandOutputManagers |-> <<>>,
                   xdgOutputManagers |-> <<>> ] >>
         ELSE << [generationTimestamp |-> 0, globals |-> <<>>] >>
    ELSE IF IsSome(cli.protocol_filter)
         THEN <<"Protocol not supported: " \o cli.protocol_filter[1]>>
    ELSE <<"Wayland Global Interfaces:">>

\* C20: as long as the compositor has announced no global, every record list
\* of AppData is empty and main() fails only when the transport does; when
\* such a run ends, main() has completed the phase-1 barrier and the five
\* drain barriers and nothing else, the renderer chosen among the four has
\* printed its rendering of no globals, and the exit code is 0.
C20_NoGlobals ==
    srv.globals = <<>> =>
        /\ Snapshot(app_data) = Snapshot(AppData_new)
        /\ pc = "panicked" => IsSome(hist.error)
        /\ pc = "exit" =>
              /\ hist.log = [k \in 1..(1 + DrainRounds) |-> <<"roundtrip">>]
              /\ out.exit_code = Some(0)
              /\ Unstamped(out.stdout) = EmptyRendering

\* The run against a compositor without globals has ended with the basic
\* text rendering: the heading alone.
C20_Witness ==
    /\ pc = "exit"
    /\ srv.globals = <<>>
    /\ ~cli.json_output /\ ~cli.full_output
    /\ cli.protocol_filter = None
    /\ out.stdout = <<HeaderLine>>

(***************************************************************************)
(* Properties of the handlers.                                             *)
(***************************************************************************)
\* The kinds of records with a bound proxy: the interface, the kind of the
\* tag, the list of the records and the list of the proxies.
BoundKinds ==
    { <<"wl_seat", "Seat", "seats", "seat_objects">>,
      <<"wl_output", "Output", "outputs", "output_objects">>,
      <<"wl_shm", "Shm", "shm_info", "shm_objects">>,
      <<"wp_presentation", "Presentation", "presentation_info", "presentation_objects">>,
      <<"treeland_output_manager_v1", "TreelandOutputManager",
        "treeland_output_managers", "treeland_output_manager_objects">>,
      <<"zxdg_output_manager_v1", "XdgOutputManager", "xdg_output_managers",
        "xdg_output_manager_objects">> }

\* The globals of an interface, in the order of their announcements.
GlobalsOf(globals, interface) ==
    LET Is(g) == g.interface = interface IN SelectSeq(globals, Is)

Written == SubSeq(sent', Len(sent) + 1, Len(sent'))

\* The record lists of AppData but the one of the field.
OtherLists(ad, field) ==
    [f \in (DOMAIN Snapshot(ad)) \ {"globals", field} |-> ad[f]]

\* C26: the handler of an announcement appends the one GlobalRecord of the
\* announced global; for wl_seat, wl_output, wl_shm, wp_presentation,
\* treeland_output_manager_v1 and zxdg_output_manager_v1 it also appends one
\* record to the list of that kind, changes no other list and writes the one
\* bind of the global; for an interface that is none of these nor
\* wp_drm_lease_device_v1 it changes no list but the globals and writes
\* nothing.
C26_AnnouncementStep ==
    [][ srv'.globals # srv.globals =>
          LET g == srv'.globals[Len(srv'.globals)]
              kinds == {kind \in BoundKinds : kind[1] = g.interface}
          IN  /\ app_data'.globals = Append(app_data.globals, g)
              /\ \A kind \in kinds :
                    /\ Len(app_data'[kind[3]]) = Len(app_data[kind[3]]) + 1
                    /\ SubSeq(app_data'[kind[3]], 1, Len(app_data[kind[3]]))
                            = app_data[kind[3]]
                    /\ app_data'[kind[3]][Len(app_data'[kind[3]])].name = g.name
                    /\ OtherLists(app_data', kind[3]) = OtherLists(app_data, kind[3])
                    /\ Len(Written) = 1
                    /\ Written[1].req = "bind"
                    /\ Written[1].iface = g.interface
                    /\ Written[1].args = <<g.name, g.version>>
              /\ kinds = {} /\ g.interface # "wp_drm_lease_device_v1" =>
                    /\ OtherLists(app_data', "globals") = OtherLists(app_data, "globals")
                    /\ Written = <<>>
    ]_vars

\* A wl_compositor global and a wl_shm global have been announced.
C26_Witness ==
    /\ Len(app_data.globals) = 2
    /\ \E k \in 1..2 : app_data.globals[k].interface = "wl_compositor"
    /\ Len(app_data.shm_info) = 1
    /\ Len(sent) = 2

\* C23: no request names wp_drm_lease_device_v1: its globals are not bound,
\* each of them has its DrmLeaseDeviceRecord, and every such record is
\* without a device path and without connectors.
C23_DrmLeaseDeviceBare ==
    /\ \A k \in 1..Len(sent) : sent[k].iface # "wp_drm_lease_device_v1"
    /\ Len(app_data.drm_lease_devices) =
          Len(GlobalsOf(app_data.globals, "wp_drm_lease_device_v1"))
    /\ \A k \in 1..Len(app_data.drm_lease_devices) :
          /\ app_data.drm_lease_devices[k].device_path = None
          /\ app_data.drm_lease_devices[k].connectors = <<>>

\* A lease device and an output have been announced and the output has got
\* its events.
C23_Witness ==
    /\ Len(app_data.drm_lease_devices) = 1
    /\ Len(app_data.outputs) = 1
    /\ Len(hist.log) = 2
    /\ Len(sent) = 2

IsPrefix(a, b) == Len(a) <= Len(b) /\ SubSeq(b, 1, Len(a)) = a

\* The numeric names of the records of a list, in the order of the list.
Names(records) == [k \in 1..Len(records) |-> records[k].name]

\* The outputs the LogicalOutputRecords of a manager stand for.
OutputIds(manager) == [k \in 1..Len(manager.outputs) |-> manager.outputs[k].output_id]

\* C22: no step of main() and no handler removes or reorders anything: after
\* a step the GlobalRecords are the ones before it, unchanged, followed by
\* the new ones; every list of per-protocol records has the records it had,
\* in their places, followed by the new ones; and the same holds for the
\* modes of every output, the formats of every ShmRecord and the
\* LogicalOutputRecords of every manager.
C22_AppendOnly ==
    [][ /\ IsPrefix(app_data.globals, app_data'.globals)
        /\ \A f \in (DOMAIN Snapshot(app_data)) \ {"globals"} :
              IsPrefix(Names(app_data[f]), Names(app_data'[f]))
        /\ \A k \in 1..Len(app_data.outputs) :
              IsPrefix(app_data.outputs[k].modes, app_data'.outputs[k].modes)
        /\ \A k \in 1..Len(app_data.shm_info) :
              IsPrefix(app_data.shm_info[k].formats, app_data'.shm_info[k].formats)
        /\ \A k \in 1..Len(app_data.xdg_output_managers) :
              IsPrefix(OutputIds(app_data.xdg_output_managers[k]),
                       OutputIds(app_data'.xdg_output_managers[k]))
    ]_vars

\* The run has ended with two formats of a ShmRecord, a mode of an output and
\* a LogicalOutputRecord.
C22_Witness ==
    /\ pc = "exit"
    /\ Len(app_data.globals) = 3
    /\ Len(app_data.shm_info) = 1
    /\ Len(app_data.shm_info[1].formats) = 2
    /\ Len(app_data.outputs) = 1
    /\ Len(app_data.outputs[1].modes) = 1
    /\ Len(app_data.xdg_output_managers) = 1
    /\ Len(app_data.xdg_output_managers[1].outputs) = 1

(***************************************************************************)
(* Properties of the phases of main().                                     *)
(***************************************************************************)
\* The positions of the requests of a kind.
RequestsOf(req) == {k \in 1..Len(sent) : sent[k].req = req}

\* The barriers main() has completed.
Barriers == {k \in 1..Len(hist.log) : hist.log[k] = <<"roundtrip">>}

\* The request was written by the registry handler, which binds a global
\* whenever one is announced, not by main().
ByRegistryHandler(k) == sent[k].req = "bind"

\* C24: when the rendering starts, main() has completed 1 + S + 5 barriers,
\* S being the number of seats known after phase 1; its last five steps are
\* barriers, the step before them is the barrier of the last seat, which
\* follows the get_keyboard of that seat; and every request main() has
\* written after the last get_keyboard is the sync of one of these six
\* barriers.
C24_FiveDrainBarriers ==
    Rendering =>
        LET seats == hist.known[1].seats
            n == Len(hist.log)
            keyboards == RequestsOf("get_keyboard")
        IN  /\ Cardinality(Barriers) = 1 + seats + 5
            /\ n >= 6
            /\ \A k \in (n - 4)..n : hist.log[k] = <<"roundtrip">>
            /\ seats > 0 =>
                  /\ hist.log[n - 5] = <<"roundtrip">>
                  /\ hist.log[n - 6] = <<"get_keyboard", seats - 1>>
            /\ seats = 0 => hist.log[n - 5] # <<"roundtrip">> \/ n = 6
            /\ Cardinality(keyboards) = seats
            /\ \A k \in keyboards :
                  (\A j \in keyboards : j <= k) =>
                      LET later == {j \in (k + 1)..Len(sent) : ~ByRegistryHandler(j)}
                      IN  /\ Cardinality(later) = 6
                          /\ \A j \in later : sent[j].req = "sync"
            /\ Cardinality({k \in RequestsOf("sync") : sent[k].at = "roundtrip_drain"}) = 5

\* The rendering starts after the barriers of two seats and the five others,
\* a third global having been announced after the last get_keyboard.
C24_Witness ==
    /\ pc = "output"
    /\ hist.known[1].seats = 2
    /\ Cardinality(Barriers) = 8
    /\ Len(app_data.globals) = 3
    /\ \E k \in RequestsOf("bind") : \A j \in RequestsOf("get_keyboard") : j < k

\* Phase 2 is over and phase 3 has not bound a keyboard yet.
AfterPhase2 == IsSome(hist.known) /\ pc \notin {"drain_objects", "bind_xdg"}

\* C25: once phase 2 is over, main() has written managers x outputs
\* get_xdg_output requests, for each pair of a manager and an output known
\* after phase 1 the one with the tag of the two indices, made on the proxies
\* of that manager and that output; and from the phase-1 barrier to the first
\* get_keyboard it has entered no barrier: one sync has been written and one
\* barrier completed.
C25_Phase2BindsWithoutBarrier ==
    /\ AfterPhase2 =>
          LET managers == hist.known[1].managers
              outputs == hist.known[1].outputs
              binds == RequestsOf("get_xdg_output")
          IN  /\ Cardinality(binds) = managers * outputs
              /\ \A m \in 0..(managers - 1), o \in 0..(outputs - 1) :
                    \E k \in binds :
                        /\ sent[k].data = [kind |-> "XdgOutput", i |-> m, j |-> o]
                        /\ sent[sent[k].args[1]].data =
                              [kind |-> "XdgOutputManager", i |-> m, j |-> 0]
                        /\ sent[sent[k].args[2]].data =
                              [kind |-> "Output", i |-> o, j |-> 0]
    /\ IsSome(hist.known) /\ RequestsOf("get_keyboard") = {}
       /\ pc \notin {"roundtrip_drain", "output", "exit", "panicked"} =>
          /\ Cardinality(RequestsOf("sync")) = 1
          /\ Cardinality(Barriers) = 1
          /\ rt.state = "idle"

\* Two outputs and a manager: both binds are written and the keyboard of no
\* seat is bound yet.
C25_Witness ==
    /\ pc = "add_xdg"
    /\ hist.known[1].managers = 1
    /\ hist.known[1].outputs = 2
    /\ Cardinality(RequestsOf("get_xdg_output")) = 2

\* main() is inside a roundtrip whose callback has not fired.
InBarrier == rt.state = "waiting"

EveryBarrierCompletes == [](InBarrier => <>(~InBarrier))

NoError == [](hist.error = None)

\* While a roundtrip waits, main() stays where it is and has printed what it
\* had printed, no sync is written again, and the wait ends with the callback
\* or with an error of the transport.
BlockedInBarrier ==
    [][ InBarrier =>
          /\ pc' = pc \/ IsSome(hist'.error)
          /\ main' = main
          /\ out' = out \/ IsSome(hist'.error)
          /\ \A k \in (Len(sent) + 1)..Len(sent') : sent'[k].req = "bind"
          /\ rt'.state \in {"waiting", "done"} \/ IsSome(hist'.error)
    ]_vars

RendersOnce == [][out'.stdout # out.stdout => pc = "output" /\ pc' = "exit"]_vars

\* C27: if every barrier completes and nothing fails, the run ends with exit
\* code 0, having rendered once; a barrier that has not completed keeps
\* main() where it is, without a new sync, a rendering or an exit, so that a
\* run whose barrier never completes never renders and never ends.
C27_TerminatesUnlessBlocked ==
    /\ (EveryBarrierCompletes /\ NoError) => <>(pc = "exit" /\ out.exit_code = Some(0))
    /\ RendersOnce
    /\ BlockedInBarrier
    /\ <>[]InBarrier => [](pc \notin {"output", "exit"})

\* The sync of a seat's barrier is written and the compositor has not
\* answered it.
C27_Witness ==
    /\ pc = "roundtrip_seat"
    /\ InBarrier
    /\ events = <<>>
    /\ srv.handled < Len(sent)
    /\ Len(app_data.globals) = 3

\* The list of AppData that holds the records a tag of the kind addresses.
KindField ==
    [ Seat |-> "seats", Output |-> "outputs", Shm |-> "shm_info",
      Presentation |-> "presentation_info",
      TreelandOutputManager |-> "treeland_output_managers",
      XdgOutputManager |-> "xdg_output_managers", XdgOutput |-> "xdg_output_managers" ]

\* A list without the element at a position.
Without(list, i) == [k \in (1..Len(list)) \ {i} |-> list[k]]

\* The fields of a record but one.
FieldsBut(record, field) == [f \in (DOMAIN record) \ {field} |-> record[f]]

\* C28: the dispatch of an event whose proxy is tagged with a kind and the
\* index i writes no request and changes nothing of AppData but the record
\* of that kind at index i: the other lists, the proxies and the globals are
\* as before, the list of the kind has its length and its other records, and
\* for an event of a logical output the manager at index i keeps everything
\* but the LogicalOutputRecord at the output index of the tag.
C28_EventChangesItsRecordOnly ==
    [][ /\ events # <<>>
        /\ events' = Tail(events)
        /\ sent[Head(events).obj].data.kind \in DOMAIN KindField
        =>
        LET tag == sent[Head(events).obj].data
            field == KindField[tag.kind]
            i == tag.i + 1
        IN  /\ sent' = sent
            /\ FieldsBut(app_data', field) = FieldsBut(app_data, field)
            /\ Len(app_data'[field]) = Len(app_data[field])
            /\ Without(app_data'[field], i) = Without(app_data[field], i)
            /\ tag.kind = "XdgOutput" /\ i <= Len(app_data[field]) =>
                  /\ FieldsBut(app_data'[field][i], "outputs")
                        = FieldsBut(app_data[field][i], "outputs")
                  /\ Len(app_data'[field][i].outputs) = Len(app_data[field][i].outputs)
                  /\ Without(app_data'[field][i].outputs, tag.j + 1)
                        = Without(app_data[field][i].outputs, tag.j + 1)
    ]_vars

\* Of the two logical outputs of a manager the first has got its events and
\* the second has not.
C28_Witness ==
    /\ Len(app_data.xdg_output_managers) = 1
    /\ Len(app_data.xdg_output_managers[1].outputs) = 2
    /\ app_data.xdg_output_managers[1].outputs[1].logical_width = 1920
    /\ app_data.xdg_output_managers[1].outputs[1].name # ""
    /\ app_data.xdg_output_managers[1].outputs[2].logical_width = 0
    /\ app_data.xdg_output_managers[1].outputs[2].name = ""

\* The events of a name dispatched to a proxy, in the order of their arrival.
EventsOf(obj, ev) ==
    LET Is(e) == e.obj = obj /\ e.ev = ev IN SelectSeq(hist.log, Is)

\* The proxies bound for the globals of an interface.
ProxiesOf(iface) == {k \in 2..Len(sent) : sent[k].req = "bind" /\ sent[k].iface = iface}

\* C29: the modes of an output are the mode events its proxy has got, one
\* entry for each event in the order of arrival, equal ones included; and
\* the formats of a ShmRecord are the format events of its proxy likewise.
C29_ModesAndFormatsAccumulate ==
    /\ \A obj \in ProxiesOf("wl_output") :
          LET modes == app_data.outputs[sent[obj].data.i + 1].modes
              got == EventsOf(obj, "mode")
          IN  /\ Len(modes) = Len(got)
              /\ \A k \in 1..Len(got) :
                    /\ modes[k].width = got[k].args[2]
                    /\ modes[k].height = got[k].args[3]
                    /\ modes[k].refresh = got[k].args[4]
                    /\ modes[k].flags =
                          IF got[k].args[1] = 1 THEN <<"current">> ELSE <<"preferred">>
    /\ \A obj \in ProxiesOf("wl_shm") :
          LET formats == app_data.shm_info[sent[obj].data.i + 1].formats
              got == EventsOf(obj, "format")
          IN  /\ Len(formats) = Len(got)
              /\ \A k \in 1..Len(got) : formats[k].format = got[k].args[1]

\* The second output has got the same mode twice.
C29_Witness ==
    /\ Len(app_data.outputs) = 2
    /\ Len(app_data.outputs[2].modes) = 2
    /\ app_data.outputs[2].modes[1] = app_data.outputs[2].modes[2]
    /\ app_data.outputs[1].modes = <<>>

\* The argument list of the latest event of a name dispatched to a proxy, or
\* the given one when the proxy has got none.
LatestOr(obj, ev, default) ==
    LET got == EventsOf(obj, ev)
    IN  IF got = <<>> THEN default ELSE got[Len(got)].args

\* The capabilities a wl_seat capabilities bitfield stands for.
CapabilitiesIn(bits) ==
    {c \in {"pointer", "keyboard", "touch"} :
        \/ c = "pointer" /\ bits % 2 = 1
        \/ c = "keyboard" /\ (bits \div 2) % 2 = 1
        \/ c = "touch" /\ (bits \div 4) % 2 = 1}

\* The scalar fields of an output are those of the latest event of its proxy,
\* over the defaults output<index>, 1 and (0, 0).
OutputScalarsLatest ==
    \A obj \in ProxiesOf("wl_output") :
        LET i == sent[obj].data.i
            output == app_data.outputs[i + 1]
            geometry == LatestOr(obj, "geometry", <<0, 0>>)
        IN  /\ output.output_name = LatestOr(obj, "name", <<"output" \o ToString(i)>>)[1]
            /\ output.scale = LatestOr(obj, "scale", <<1>>)[1]
            /\ output.x = geometry[1]
            /\ output.y = geometry[2]

\* The name of a seat is that of the latest name event of its proxy, over the
\* default seat<index>.
SeatNameLatest ==
    \A obj \in ProxiesOf("wl_seat") :
        LET i == sent[obj].data.i
        IN  app_data.seats[i + 1].seat_name
                = LatestOr(obj, "name", <<"seat" \o ToString(i)>>)[1]

\* C30: scalar fields are last-writer-wins over their defaults: a seat's
\* name and capabilities are those of the latest name and capabilities event
\* (seat<index> and none without one), an output's name, scale and position
\* those of the latest name, scale and geometry event (output<index>, 1 and
\* (0, 0) without one).
C30_LastWriterWins ==
    /\ SeatNameLatest
    /\ OutputScalarsLatest
    /\ \A obj \in ProxiesOf("wl_seat") :
          Range(app_data.seats[sent[obj].data.i + 1].capabilities)
              = CapabilitiesIn(LatestOr(obj, "capabilities", <<0>>)[1])

(***************************************************************************)
(* Properties of the events no handler names.                              *)
(***************************************************************************)
\* The tag each handler expects on its proxy.
ExpectedKind ==
    [ wl_seat |-> "Seat", wl_keyboard |-> "Seat", wl_output |-> "Output",
      wl_shm |-> "Shm", wp_presentation |-> "Presentation",
      treeland_output_manager_v1 |-> "TreelandOutputManager",
      zxdg_output_v1 |-> "XdgOutput" ]

\* The call is an event of none of the handled kinds.
NotHandled(call) ==
    \/ call.target = "wl_registry" /\ call.ev = "global_remove"
    \/ call.target = "zxdg_output_v1" /\ call.ev = "done"
    \/ call.target = "wl_keyboard" /\ call.ev # "repeat_info"
    \/ call.target = "zxdg_output_manager_v1"
    \/ /\ call.target \in DOMAIN ExpectedKind
       /\ call.data.kind # ExpectedKind[call.target]

\* C31: an event of none of the handled kinds (the removal of a global, done
\* of a logical output, a keyboard event other than repeat_info, any event of
\* an xdg output manager, any event on a proxy whose tag is of another kind
\* than its handler expects) changes nothing of AppData, writes no request
\* and is no error.
C31_UnhandledEventIgnored ==
    [][ hist.applied = None /\ IsSome(hist'.applied) /\ NotHandled(hist'.applied[1])
        => /\ app_data' = app_data
           /\ sent' = sent
           /\ pc' = pc
           /\ out' = out
           /\ hist'.error = hist.error ]_vars

\* The removal of the second of two announced globals has been handled, and
\* the global is still recorded.
C31_Witness ==
    /\ IsSome(hist.applied)
    /\ hist.applied[1].ev = "global_remove"
    /\ hist.applied[1].args = <<2>>
    /\ Len(app_data.globals) = 2
    /\ app_data.globals[2].name = 2
    /\ app_data.globals[2].interface = "wl_seat"
    /\ Len(app_data.seats) = 1

(***************************************************************************)
(* Properties of the steps between the barriers.                           *)
(***************************************************************************)
\* A LogicalOutputRecord no event has touched.
IsPlaceholder(output) ==
    /\ output.name = "" /\ output.description = ""
    /\ output.logical_x = 0 /\ output.logical_y = 0
    /\ output.logical_width = 0 /\ output.logical_height = 0

\* The snapshot of after is that of before with one placeholder more at the
\* end of the list of one manager.
PlaceholderAppended(before, after) ==
    \E m \in 1..Len(before.xdg_output_managers) :
        LET old == before.xdg_output_managers[m].outputs
            new == after.xdg_output_managers[m].outputs
        IN  /\ Len(new) = Len(old) + 1
            /\ SubSeq(new, 1, Len(old)) = old
            /\ IsPlaceholder(new[Len(new)])
            /\ Snapshot(after)
                 = Snapshot([before EXCEPT !.xdg_output_managers[m].outputs = new])

\* C32: a step taken while no roundtrip is in progress runs no handler (no
\* event leaves the queue, the registry handler binds nothing, no repeat
\* info is applied) and leaves the snapshot as it is, but for a placeholder
\* LogicalOutputRecord appended by the loop of phase 2.
C32_CollectorsOnlyInBarrier ==
    [][ rt.state = "idle" =>
          /\ \/ Snapshot(app_data') = Snapshot(app_data)
             \/ pc = "add_xdg" /\ PlaceholderAppended(app_data, app_data')
          /\ Len(events') >= Len(events)
          /\ hist'.repeat_from = hist.repeat_from
          /\ sent' # sent => sent'[Len(sent')].req # "bind" ]_vars

\* A keyboard has been requested between two barriers: the handlers of
\* phase 1 have filled in the output, the placeholder of its logical output
\* is untouched.
C32_Witness ==
    /\ pc = "roundtrip_seat"
    /\ rt.state = "idle"
    /\ sent[Len(sent)].req = "get_keyboard"
    /\ Len(app_data.outputs) = 1
    /\ app_data.outputs[1].modes # <<>>
    /\ Len(app_data.xdg_output_managers) = 1
    /\ Len(app_data.xdg_output_managers[1].outputs) = 1
    /\ IsPlaceholder(app_data.xdg_output_managers[1].outputs[1])

(***************************************************************************)
(* Properties of the globals announced after phase 1.                      *)
(***************************************************************************)
\* The proxies bound by the registry handler with the tag of a kind and a
\* local index to the global of a numeric name.
BoundFor(kind, index, name) ==
    {k \in 1..Len(sent) :
        /\ sent[k].req = "bind"
        /\ sent[k].data = UserData(kind, index, 0)
        /\ sent[k].args[1] = name}

\* A global of a numeric name is recorded once.
RecordedOnce(name) ==
    Cardinality({g \in 1..Len(app_data.globals) : app_data.globals[g].name = name}) = 1

\* C33: a seat, an output or an output manager first announced after the
\* barrier of phase 1 has returned is recorded and bound by the registry
\* handler like any other, but gets no dependent object: no keyboard is
\* requested for such a seat and its repeat fields stay absent, no logical
\* output is requested for such an output and no manager has a record for
\* it, and such a manager has no LogicalOutputRecord at all.
C33_LateGlobalsWithoutDependents ==
    IsSome(hist.known) =>
        LET known == hist.known[1]
        IN  /\ \A i \in (known.seats + 1)..Len(app_data.seats) :
                  /\ RecordedOnce(app_data.seats[i].name)
                  /\ Cardinality(BoundFor("Seat", i - 1, app_data.seats[i].name)) = 1
                  /\ ~HasRepeat(app_data.seats[i])
                  /\ \A k \in RequestsOf("get_keyboard") :
                        /\ sent[k].data.i # i - 1
                        /\ sent[k].args[1]
                              \notin BoundFor("Seat", i - 1, app_data.seats[i].name)
            /\ \A o \in (known.outputs + 1)..Len(app_data.outputs) :
                  /\ RecordedOnce(app_data.outputs[o].name)
                  /\ Cardinality(BoundFor("Output", o - 1, app_data.outputs[o].name)) = 1
                  /\ \A k \in RequestsOf("get_xdg_output") :
                        /\ sent[k].data.j # o - 1
                        /\ sent[k].args[2]
                              \notin BoundFor("Output", o - 1, app_data.outputs[o].name)
                  /\ \A m \in 1..Len(app_data.xdg_output_managers) :
                        \A r \in Range(app_data.xdg_output_managers[m].outputs) :
                            r.output_id # o - 1
            /\ \A m \in (known.managers + 1)..Len(app_data.xdg_output_managers) :
                  /\ RecordedOnce(app_data.xdg_output_managers[m].name)
                  /\ Cardinality(BoundFor("XdgOutputManager", m - 1,
                                          app_data.xdg_output_managers[m].name)) = 1
                  /\ app_data.xdg_output_managers[m].outputs = <<>>
                  /\ \A k \in RequestsOf("get_xdg_output") : sent[k].data.i # m - 1

\* The run is over: the two seats of phase 1 have their repeat info, the
\* seat announced during the barrier of the first keyboard has none.
C33_Witness ==
    /\ pc = "exit"
    /\ hist.known[1].seats = 2
    /\ Len(app_data.seats) = 3
    /\ HasRepeat(app_data.seats[1])
    /\ HasRepeat(app_data.seats[2])
    /\ ~HasRepeat(app_data.seats[3])
    /\ Cardinality(RequestsOf("get_keyboard")) = 2
    /\ \E k \in BoundFor("Seat", 2, 3), a, b \in RequestsOf("get_keyboard") :
          a < k /\ k < b

\* Phase 3 is over.
PastPhase3 == IsSome(hist.known) /\ pc \in {"roundtrip_drain", "output", "exit"}

\* C34: once phase 3 is over, one keyboard has been requested from the proxy
\* of every seat that was known when the barrier of phase 1 returned, with
\* the index of the seat as its tag, whatever capabilities the seat is
\* recorded with and whether or not its capabilities event had been
\* dispatched by then.
C34_KeyboardForEverySeat ==
    PastPhase3 =>
        \A i \in 1..hist.known[1].seats :
            Cardinality({k \in RequestsOf("get_keyboard") :
                /\ sent[k].data = UserData("Seat", i - 1, 0)
                /\ sent[k].args[1] \in BoundFor("Seat", i - 1, app_data.seats[i].name)}) = 1

\* The run is over.  The first seat is recorded with a pointer only, and the
\* second was announced during the barrier of phase 1 and bound after its
\* sync, so that no event of it had been dispatched when its keyboard was
\* requested; both have the repeat info of their keyboards.
C34_Witness ==
    /\ pc = "exit"
    /\ hist.known[1].seats = 2
    /\ app_data.seats[1].capabilities = <<"pointer">>
    /\ \E k \in BoundFor("Seat", 1, app_data.seats[2].name), b \in RequestsOf("sync") :
          /\ b < k
          /\ \A j \in RequestsOf("get_xdg_output") \cup RequestsOf("get_keyboard") : k < j
    /\ HasRepeat(app_data.seats[1])
    /\ HasRepeat(app_data.seats[2])

(***************************************************************************)
(* Properties of the records and their globals.                            *)
(***************************************************************************)
\* The list of AppData that holds the records of an interface.
RecordsField ==
    [ wl_seat |-> "seats", wl_output |-> "outputs", wl_shm |-> "shm_info",
      wp_drm_lease_device_v1 |-> "drm_lease_devices",
      wp_presentation |-> "presentation_info",
      treeland_output_manager_v1 |-> "treeland_output_managers",
      zxdg_output_manager_v1 |-> "xdg_output_managers" ]

NotFoundWarnings ==
    { "        [Warning] DRM Lease device info not found!",
      "        [Warning] Presentation info not found!" }

\* C35: the numeric names being unique, after every step of a handler each
\* GlobalRecord of one of the seven detailed interfaces has exactly one
\* record of its kind with its numeric name, each record of a kind has
\* exactly one GlobalRecord of its interface with its numeric name, the
\* lookup by numeric name finds the record made for the global (the k-th
\* record for the k-th global of the interface), and the full text output of
\* the snapshot has no `info not found` warning.
C35_RecordsMatchGlobals ==
    /\ \A interface \in DOMAIN RecordsField :
          LET records == app_data[RecordsField[interface]]
              globals == GlobalsOf(app_data.globals, interface)
          IN  /\ \A g \in 1..Len(globals) :
                    /\ Cardinality({k \in 1..Len(records) :
                            records[k].name = globals[g].name}) = 1
                    /\ FindByName(records, globals[g].name) = Some(records[g])
              /\ \A k \in 1..Len(records) :
                    Cardinality({g \in 1..Len(app_data.globals) :
                        /\ app_data.globals[g].name = records[k].name
                        /\ app_data.globals[g].interface = interface}) = 1
    /\ \A sort_output \in BOOLEAN :
          Range(print_all_info(app_data, sort_output, None)) \cap NotFoundWarnings = {}

\* Two presentation globals have been announced and the second has got its
\* clock: each is printed with its own record.
C35_Witness ==
    /\ Len(app_data.globals) = 2
    /\ Len(app_data.presentation_info) = 2
    /\ app_data.presentation_info[1].clock_id = None
    /\ IsSome(app_data.presentation_info[2].clock_id)
    /\ FindByName(app_data.presentation_info, 2) = Some(app_data.presentation_info[2])

\* C36: whenever an event of a logical output is dispatched, the
\* LogicalOutputRecord of its pair (m, o) is there, at the place o of the
\* list of manager m and with the output id o, so that the event is applied
\* to it and not discarded: a logical size dispatched is the size of the
\* record afterwards.
C36_PlaceholderBeforeEvents ==
    [][ /\ events # <<>>
        /\ events' = Tail(events)
        /\ sent[Head(events).obj].iface = "zxdg_output_v1"
        => LET e == Head(events)
               m == sent[e.obj].data.i
               o == sent[e.obj].data.j
           IN  /\ sent[e.obj].req = "get_xdg_output"
               /\ m < Len(app_data.xdg_output_managers)
               /\ o < Len(app_data.xdg_output_managers[m + 1].outputs)
               /\ app_data.xdg_output_managers[m + 1].outputs[o + 1].output_id = o
               /\ e.ev = "logical_size" =>
                     /\ app_data'.xdg_output_managers[m + 1].outputs[o + 1].logical_width
                            = e.args[1]
                     /\ app_data'.xdg_output_managers[m + 1].outputs[o + 1].logical_height
                            = e.args[2] ]_vars

\* The events of both logical outputs of a manager have been applied.
C36_Witness ==
    /\ Len(app_data.xdg_output_managers) = 1
    /\ Len(app_data.xdg_output_managers[1].outputs) = 2
    /\ \A o \in 1..2 :
          /\ app_data.xdg_output_managers[1].outputs[o].logical_width = 1920
          /\ app_data.xdg_output_managers[1].outputs[o].description # ""
    /\ events = <<>>

(***************************************************************************)
(* Properties of the rendering of a format code.                           *)
(***************************************************************************)
\* The number a rendering of four characters spells, its first character
\* being the least significant byte.
RECURSIVE LittleEndian(_)
LittleEndian(chars) ==
    IF chars = <<>> THEN 0 ELSE Head(chars) + 256 * LittleEndian(Tail(chars))

\* The value of a lowercase hexadecimal digit, -1 for another character.
HexValue(char) ==
    IF char \in 48..57 THEN char - 48
    ELSE IF char \in 97..102 THEN char - 87
    ELSE -1

\* The number that hexadecimal digits spell.
RECURSIVE HexNumber(_)
HexNumber(chars) ==
    IF chars = <<>> THEN 0
    ELSE 16 * HexNumber(SubSeq(chars, 1, Len(chars) - 1)) + HexValue(chars[Len(chars)])

\* Every byte of the code is an ASCII character from ! to ~.
AllGraphic(format) ==
    \A k \in 0..3 : ((format \div (256 ^ k)) % 256) \in 33..126

\* C37: the format stored by a format event has the code of the wire, and
\* its rendering is the four characters of the bytes of the code, least
\* significant first, when each byte is a printable ASCII character other
\* than the space (0x21..0x7E), and the code in eight lowercase hexadecimal
\* digits, zero padded, otherwise.
C37_FourccOrHex ==
    IsSome(hist.applied)
    /\ hist.applied[1].target = "wl_shm" /\ hist.applied[1].ev = "format"
    /\ hist.applied[1].data.kind = "Shm"
    /\ Addressed(app_data, hist.applied[1])
    => LET code == hist.applied[1].args[1]
           formats == app_data.shm_info[hist.applied[1].data.i + 1].formats
           stored == formats[Len(formats)]
       IN  /\ Len(formats) = 1
           /\ stored.format = code
           /\ IF AllGraphic(code)
              THEN /\ Len(stored.fourcc) = 4
                   /\ \A k \in 1..4 : stored.fourcc[k] \in 33..126
                   /\ LittleEndian(stored.fourcc) = code
              ELSE /\ Len(stored.fourcc) = 8
                   /\ \A k \in 1..8 : HexValue(stored.fourcc[k]) >= 0
                   /\ HexNumber(stored.fourcc) = code

\* The code of " R24", a space in its lowest byte, is stored with its
\* hexadecimal digits 34325220.
C37_Witness ==
    /\ IsSome(hist.applied)
    /\ hist.applied[1].target = "wl_shm"
    /\ hist.applied[1].ev = "format"
    /\ hist.applied[1].args = <<875713056>>
    /\ Len(app_data.shm_info) = 2
    /\ hist.applied[1].data = UserData("Shm", 1, 0)
    /\ app_data.shm_info[2].formats
          = <<[format |-> 875713056, fourcc |-> <<51, 52, 51, 50, 53, 50, 50, 48>>]>>

(***************************************************************************)
(* Properties of the fields printed with a default.                        *)
(***************************************************************************)
\* What the renderers print for the snapshot: the full text with -p naming a
\* protocol or without -p, and the full JSON document.
FullText(protocol_filter) ==
    Render(app_data, [ json_output |-> FALSE, full_output |-> TRUE,
                       sort_output |-> FALSE, protocol_filter |-> protocol_filter ], 0)

FullJson ==
    Render(app_data, [ json_output |-> TRUE, full_output |-> TRUE,
                       sort_output |-> FALSE, protocol_filter |-> None ], 0)[1]

\* The line expected for the clock of a presentation record and for the path
\* of a DRM lease device.
ClockLine(clock_id) ==
    "        presentation clock id: " \o ToString(clock_id) \o " (CLOCK_MONOTONIC)"

PathLine(path) == "        path: " \o path

\* The lines expected for the devices: the line of the global, the path, and
\* the connectors under their heading.
RECURSIVE DeviceLinesExpected(_)
DeviceLinesExpected(devices) ==
    IF devices = <<>> THEN <<>>
    ELSE LET device == Head(devices)
             global == CHOOSE g \in Range(app_data.globals) : g.name = device.name
         IN  << GlobalLine(global, FALSE),
                PathLine(IF device.device_path = None THEN "/dev/dri/card1"
                         ELSE device.device_path[1]) >>
             \o (IF device.connectors = <<>> THEN <<>>
                 ELSE <<"        connectors:">>
                      \o [k \in 1..Len(device.connectors) |->
                            "                name: " \o device.connectors[k].name
                            \o ", description: " \o device.connectors[k].description
                            \o ", connector_id: "
                            \o ToString(device.connectors[k].connector_id)])
             \o DeviceLinesExpected(Tail(devices))

\* C38: the full text output shows a presentation global whose record has no
\* clock with the clock id 1 and one whose record has a clock with that
\* clock, a DRM lease device without a path with the path /dev/dri/card1 and
\* one with a path with that path; the full JSON output of the same snapshot
\* has the clock and the path as they are recorded, absent when absent.
C38_TextDefaultsJsonAbsent ==
    LET clocks == app_data.presentation_info
        devices == app_data.drm_lease_devices
    IN  /\ clocks # <<>> =>
              LET text == FullText(Some("wp_presentation"))
              IN  /\ Len(text) = 1 + 2 * Len(clocks)
                  /\ \A k \in 1..Len(clocks) :
                        text[2 * k + 1] =
                            IF clocks[k].clock_id = None THEN ClockLine(1)
                            ELSE ClockLine(clocks[k].clock_id[1])
        /\ devices # <<>> =>
              FullText(Some("wp_drm_lease_device_v1"))
                  = <<HeaderLine>> \o DeviceLinesExpected(devices)
        /\ \A k \in 1..Len(clocks) :
              LET expected == IF clocks[k].clock_id = None THEN ClockLine(1)
                              ELSE ClockLine(clocks[k].clock_id[1])
              IN  \E n \in 1..Len(FullText(None)) : FullText(None)[n] = expected
        /\ \A k \in 1..Len(devices) :
              LET expected == IF devices[k].device_path = None
                              THEN PathLine("/dev/dri/card1")
                              ELSE PathLine(devices[k].device_path[1])
              IN  \E n \in 1..Len(FullText(None)) : FullText(None)[n] = expected
        /\ Len(FullJson.presentationInfo) = Len(clocks)
        /\ \A k \in 1..Len(clocks) :
              FullJson.presentationInfo[k].clockId = clocks[k].clock_id
        /\ Len(FullJson.drmLeaseDevices) = Len(devices)
        /\ \A k \in 1..Len(devices) :
              FullJson.drmLeaseDevices[k].devicePath = devices[k].device_path

\* A presentation global whose clock 4 has been recorded and a DRM lease
\* device without a path: the text shows the clock 4 and the path
\* /dev/dri/card1, the JSON document the clock 4 and no path.
C38_Witness ==
    /\ Len(app_data.globals) = 2
    /\ Len(app_data.presentation_info) = 1
    /\ Len(app_data.drm_lease_devices) = 1
    /\ app_data.presentation_info[1].clock_id = Some(4)
    /\ app_data.drm_lease_devices[1].device_path = None
    /\ FullText(None)
          = << HeaderLine,
               GlobalLine(app_data.globals[1], FALSE),
               "        presentation clock id: 4 (CLOCK_MONOTONIC)",
               GlobalLine(app_data.globals[2], FALSE),
               "        path: /dev/dri/card1" >>
    /\ FullJson.presentationInfo = <<[clockId |-> Some(4)]>>
    /\ FullJson.drmLeaseDevices = <<[devicePath |-> None, connectors |-> <<>>]>>

====
